---- MODULE Spec2Model ----
(***************************************************************************)
(* Verification model of the perception-and-memory pipeline of             *)
(* ai_camera_agent (eye/ and infrastructure/database/).                    *)
(*                                                                         *)
(* The module holds one state machine per component, each with its own     *)
(* specification, so that every check explores only the component a        *)
(* property is about:                                                      *)
(*   SpecDetector  ObjectDetector + BaseYoloClient vocabulary switching    *)
(*   SpecNms       BaseYoloClient._apply_nms as a pure function            *)
(*   SpecNmsThreshold  the same, on boxes whose IOU is the threshold       *)
(*   SpecMemory    PerceptionMemory driven through its own interface       *)
(*   SpecEye       EyeCore._analysis_loop: perceive, then store            *)
(*   SpecEndToEnd  a scripted run of the analysis loop                     *)
(*   SpecEmptyRun  the analysis loop, with the run of empty passes counted *)
(*   SpecCounts    the analysis loop and update_event, with the running    *)
(*                 maximum of the frames fed as a history variable         *)
(*   SpecDb        AsyncDBManager's write coroutines, called directly      *)
(*   SpecFilter    StateFilter, the IOU tracker                            *)
(*   SpecAnalyzer  SceneAnalyzer: analyze callers, the queue, the worker   *)
(*   SpecParse     SceneAnalyzer._do_analysis as a pure function           *)
(*   SpecBuffer    FrameBuffer: a producer, a consumer, the signal         *)
(*   SpecContextRead  FrameBuffer read through EyeCore.get_context_frames  *)
(*   SpecCapture   VideoCapture.start and EyeCore._capture_loop, with the  *)
(*                 fairness of the event loop                              *)
(*   SpecLanes     PerceptionMemory under the analysis lane and a dismiss  *)
(*                 command, await by await                                 *)
(*   SpecSend      vlm_client._send_request: posts, retries, backoff       *)
(*   SpecStop      EyeCore.start / stop: the capture, analysis and         *)
(*                 recording tasks, with the fairness of the event loop    *)
(*   SpecCascade   ObjectDetector crop by crop: the rate limiter, the      *)
(*                 vocabulary of each inference, task cancellation         *)
(*   SpecTracker   StateFilter over frames of several detections, with     *)
(*                 reset and the identities handed out as history          *)
(*   SpecPool      AsyncDBManager's connection pool: initialize and the    *)
(*                 operations that take and release a connection           *)
(*                                                                         *)
(* Names the source leaves dangling are resolved to their evident          *)
(* referent and flagged where they are used.                               *)
(***************************************************************************)
EXTENDS Integers, Sequences, FiniteSets, TLC

VARIABLES
    \* ---- ObjectDetector / BaseYoloClient ----
    initialized,      \* ObjectDetector._initialized (the client exists)
    current_targets,  \* BaseYoloClient.current_targets
    stage1_targets,   \* ObjectDetector._stage1_targets
    stage2_targets,   \* ObjectDetector._stage2_targets
    dpc,              \* per lane: where its detect_stage1/2 coroutine is suspended
    dret,             \* what the detect_stage2 call that returned in the last step returned
    \* ---- BaseYoloClient._apply_nms, applied to an input and to its own output ----
    nmsIn,            \* raw detections handed to _apply_nms
    nmsOut,           \* _apply_nms(nmsIn)
    nmsOut2,          \* _apply_nms(nmsOut)
    nmsPhase,         \* how many of the two applications have run
    \* ---- PerceptionMemory / AsyncDBManager / EyeCore analysis lane ----
    now,              \* time.time(), in clock ticks since the process started
    loss_tolerance,   \* PerceptionMemory.loss_tolerance
    max_event_duration, \* PerceptionMemory.max_event_duration, in clock ticks
    db_attached,      \* PerceptionMemory.db_manager is not None
    current_event,    \* PerceptionMemory.current_event (EventState)
    rows,             \* table security_events; a row's id is its index
    last_rowid,       \* what the last AsyncDBManager.start_event returned
    closed_id,        \* event_id of the event _close_event closed last
    opened,           \* number of _start_event calls so far
    result,           \* the PerceptionResult of the frame processed last
    empties,          \* consecutive empty frames fed since the last detection frame
    submitted,        \* novel embeddings submitted for the open event
    fed,              \* frames the scripted run has fed so far
    \* ---- AsyncDBManager driven directly ----
    dbcall,           \* per caller, the write coroutine it is suspended in
    dbIssued,         \* write operations issued so far
    updIssued,        \* update_event operations issued so far
    updBatches,       \* transactions committed that carried update statements
    \* ---- StateFilter ----
    tracked_objects,  \* StateFilter.tracked_objects
    next_id,          \* StateFilter._next_id
    current_risk_level, \* StateFilter.current_risk_level
    recheck_interval, \* StateFilter.recheck_interval, in seconds
    high_priority_classes, \* StateFilter.high_priority_classes
    fclock,           \* time.time() as StateFilter reads it, in seconds
    policy,           \* the dynamic_targets of the last update_policy call, if any
    fret,             \* the last check_refinement_needs call: its input and what it returned
    \* ---- SceneAnalyzer ----
    request_queue,    \* SceneAnalyzer.request_queue: the callers whose request is queued
    semaphore,        \* free permits of SceneAnalyzer.semaphore
    worker,           \* where the _analysis_worker task is suspended, and on whose request
    inflight,         \* requests whose _do_analysis (the remote model call) is running
    acall,            \* per caller, its analyze call: position, future, start time, value
    aclock,           \* the event loop's clock, in seconds
    presp,            \* a model response handed to _do_analysis
    pout,             \* what _do_analysis made of presp
    \* ---- FrameBuffer ----
    context_maxlen,   \* maxlen of FrameBuffer._context_buffer
    trigger_maxlen,   \* maxlen of FrameBuffer._trigger_buffer
    context_buffer,   \* FrameBuffer._context_buffer
    trigger_buffer,   \* FrameBuffer._trigger_buffer
    new_data_event,   \* FrameBuffer._new_data_event is set
    arrived,          \* frames added so far; a frame is named by its arrival number
    cleared_at,       \* the value of arrived when clear ran last
    added_since_clear, \* an add ran since the event was cleared last
    got,              \* what the last get_frames call returned, and when
    bwait,            \* the consumer's wait_for_new_data call: waiting, or what it returned
    \* ---- VideoCapture / EyeCore capture lane ----
    cap_running,      \* VideoCapture._running
    cap_open,         \* VideoCapture._cap: none yet, open, or released
    cpc,              \* where the capture task is suspended
    latest_no,        \* number of the frame in VideoCapture._latest_frame, 0 for None
    eye_running,      \* EyeCore._running
    stop_called,      \* VideoCapture.stop has been called
    added_no,         \* number of the frame _capture_loop added to the buffer last, 0 for none
    \* ---- history of the frames fed to PerceptionMemory ----
    seen_max,         \* per class, the largest count in a frame fed since the open event was opened
    \* ---- PerceptionMemory under the analysis lane and a dismiss command ----
    alane,           \* where the analysis lane is suspended inside PerceptionMemory, and the frame it holds
    dlane,           \* where the dismiss command is suspended inside PerceptionMemory
    close_calls,     \* per event, in opening order, the db_manager.close_event calls issued for it
    writers,         \* the coroutines that have assigned a field of current_event
    \* ---- vlm_client._send_request ----
    spc,             \* where _send_request is: about to post, asleep, or returned
    sattempt,        \* the loop variable `attempt` of _send_request
    sret,            \* what _send_request returned
    soutcomes,       \* what each client.post of the call did, in order
    sdelays,         \* the delays slept between the posts, in seconds
    \* ---- EyeCore analysis and recording tasks ----
    apc,             \* where the _analysis_loop task is suspended
    rpc,             \* where the _recording_loop task is suspended
    analysing,       \* the analysis lane is inside perceive with a scene analysis in flight
    \* ---- ObjectDetector crop by crop ----
    s2call,          \* the detect_stage2 call in progress: its valid crops, the crop being inferred, the crops inferred, the features so far
    s2ret,           \* what the last detect_stage2 call returned
    s1call,          \* per lane, whether its detect_stage1 call awaits an inference
    last_send_time,  \* BaseYoloClient.last_send_time, in tenths of a second
    cas_now,         \* time.time() as detect_async reads it, in tenths of a second
    last_infer,      \* the inference started last: its stage, the vocabulary it runs under, the target list of its stage
    \* ---- StateFilter, frames of several detections ----
    issued,          \* identities handed out since construction
    tret,            \* the last check_refinement_needs call: its frame and what it returned
    \* ---- AsyncDBManager connection pool ----
    max_connections,  \* AsyncDBManager._max_connections
    connection_pool,  \* AsyncDBManager._connection_pool
    active_connections,  \* AsyncDBManager._active_connections
    holding,         \* the connection each operation holds inside _get_connection
    open_conns,      \* connections opened and not closed
    made,            \* connections opened so far
    init_conns       \* connections created by initialize()

detVars == <<initialized, current_targets, stage1_targets, stage2_targets, dpc, dret>>
nmsVars == <<nmsIn, nmsOut, nmsOut2, nmsPhase>>
memVars == <<now, loss_tolerance, max_event_duration, db_attached, current_event,
             rows, last_rowid, closed_id, opened, result, empties, submitted, fed>>
dbVars == <<dbcall, dbIssued, updIssued, updBatches>>
filtVars == <<tracked_objects, next_id, current_risk_level, recheck_interval,
              high_priority_classes, fclock, policy, fret>>
\* the memory's own variables, the table apart
memOwn == <<now, loss_tolerance, max_event_duration, db_attached, current_event,
            closed_id, opened, result, empties, submitted, fed>>
anaVars == <<request_queue, semaphore, worker, inflight, acall, aclock, presp, pout>>
bufVars == <<context_maxlen, trigger_maxlen, context_buffer, trigger_buffer,
             new_data_event, arrived, cleared_at, added_since_clear, got, bwait>>
capVars == <<cap_running, cap_open, cpc, latest_no, eye_running, stop_called, added_no>>
cntVars == <<seen_max>>
laneVars == <<alane, dlane, close_calls, writers>>
sendVars == <<spc, sattempt, sret, soutcomes, sdelays>>
stopVars == <<apc, rpc, analysing>>
casVars == <<s2call, s2ret, s1call, last_send_time, cas_now, last_infer>>
trkVars == <<issued, tret>>
poolVars == <<max_connections, connection_pool, active_connections, holding, open_conns, made, init_conns>>
vars == <<detVars, nmsVars, memVars, dbVars, filtVars, anaVars, bufVars, capVars, cntVars, laneVars, sendVars, stopVars, casVars, trkVars, poolVars>>

\* what the operations of one component leave alone
notDet == <<nmsVars, memVars, dbVars, filtVars, anaVars, bufVars, capVars, cntVars, laneVars, sendVars, stopVars, casVars, trkVars, poolVars>>
notNms == <<detVars, memVars, dbVars, filtVars, anaVars, bufVars, capVars, cntVars, laneVars, sendVars, stopVars, casVars, trkVars, poolVars>>
notMem == <<detVars, nmsVars, dbVars, filtVars, anaVars, bufVars, capVars, cntVars, laneVars, sendVars, stopVars, casVars, trkVars, poolVars>>
notDb == <<detVars, nmsVars, memOwn, filtVars, anaVars, bufVars, capVars, cntVars, laneVars, sendVars, stopVars, casVars, trkVars, poolVars>>
notFilt == <<detVars, nmsVars, memVars, dbVars, anaVars, bufVars, capVars, cntVars, laneVars, sendVars, stopVars, casVars, trkVars, poolVars>>
notAna == <<detVars, nmsVars, memVars, dbVars, filtVars, bufVars, capVars, cntVars, laneVars, sendVars, stopVars, casVars, trkVars, poolVars>>
notBuf == <<detVars, nmsVars, memVars, dbVars, filtVars, anaVars, capVars, cntVars, laneVars, sendVars, stopVars, casVars, trkVars, poolVars>>
\* the capture lane writes to the frame buffer
notCap == <<detVars, nmsVars, memVars, dbVars, filtVars, anaVars, cntVars, laneVars, sendVars, stopVars, casVars, trkVars, poolVars>>
notCnt == <<detVars, nmsVars, dbVars, filtVars, anaVars, bufVars, capVars, laneVars, sendVars, stopVars, casVars, trkVars, poolVars>>
\* the analysis lane and the dismiss command write the memory's variables
notLane == <<detVars, nmsVars, dbVars, filtVars, anaVars, bufVars, capVars, cntVars, sendVars, stopVars, casVars, trkVars, poolVars>>
notSend == <<detVars, nmsVars, memVars, dbVars, filtVars, anaVars, bufVars, capVars, cntVars, laneVars, stopVars, casVars, trkVars, poolVars>>
notStop == <<detVars, nmsVars, memVars, dbVars, filtVars, anaVars, bufVars, capVars, cntVars, laneVars, sendVars, casVars, trkVars, poolVars>>
\* what EyeCore.start and the capture task's first step leave alone
notCap2 == <<detVars, nmsVars, memVars, dbVars, filtVars, anaVars, cntVars, laneVars, sendVars, casVars, trkVars, poolVars>>
\* the crop-by-crop detector writes the detector's variables
notTrk == <<detVars, nmsVars, memVars, dbVars, anaVars, bufVars, capVars, cntVars, laneVars, sendVars, stopVars, casVars, poolVars>>
notPool == <<detVars, nmsVars, memVars, dbVars, filtVars, anaVars, bufVars, capVars, cntVars, laneVars, sendVars, stopVars, casVars, trkVars>>
notCas == <<nmsVars, memVars, dbVars, filtVars, anaVars, bufVars, capVars, cntVars, laneVars, sendVars, stopVars, trkVars, poolVars>>

----------------------------------------------------------------------------
(* Bounds of the model *)

\* most tasks handed to one detect_stage2 call
MaxTasks == 2
\* most sub-detections one crop inference returns
MaxSub == 1
\* longest list of raw detections handed to _apply_nms
MaxNmsLen == 3
\* last clock tick the model lets the clock reach
MaxTime == 2
\* largest loss_tolerance / max_event_duration a run is configured with
MaxTolerance == 2
MaxDuration == 1
\* most objects of one class in a frame
MaxCount == 2
\* most events a run opens
MaxEvents == 2
\* detection cycles of the scripted end-to-end run
ScenarioDetCycles == 20
\* most novel embeddings submitted for one event
MaxEmbeddings == 1
\* most write operations issued to the persistence engine directly
MaxOps == 3
\* largest batch size a batching engine would be configured with
MaxBatch == 3
\* most track ids StateFilter hands out
MaxIds == 2
\* last second the filter's clock reaches
MaxFilterClock == 6

----------------------------------------------------------------------------
(* ObjectDetector: two-stage cascade over one shared client *)

\* target lists, as opaque values
TargetLists == {"DEFAULT_TARGETS", "REFINE_TARGETS", "custom"}

NoClient == "no_client"
NoRet == [kind |-> "none", features |-> 0]

\* the analysis lane runs Stage 1 and Stage 2 one after the other; a skill's
\* perceive_single runs Stage 1 on its own task
Lanes == {"analysis", "skill"}

Idle == [at |-> "idle", left |-> 0, found |-> 0]

InitDetector ==
    /\ initialized = FALSE
    /\ current_targets = NoClient
    /\ stage1_targets = "DEFAULT_TARGETS"
    /\ stage2_targets = "REFINE_TARGETS"
    /\ dpc = [l \in Lanes |-> Idle]
    /\ dret = NoRet

\* BaseYoloClient.update_prompt: the vocabulary becomes `targets`
update_prompt(targets) == targets

\* _ensure_initialized: the first call creates the client in Stage-1 vocabulary
ensure_initialized == IF initialized THEN current_targets ELSE update_prompt(stage1_targets)

\* the except branch of detect_stage2: restore, return []
Stage2ExceptRestore == update_prompt(stage1_targets)

\* a detect_stage2 whose step 5 leaves the vocabulary where step 2 put it
Stage2FinalRestore_Missing == current_targets

\* step 5 of detect_stage2: restore after the crops are processed
Stage2FinalRestore == update_prompt(stage1_targets)

\* detect_stage2 up to its first suspension (or its return, on the early paths)
DetectStage2Call(nTasks, frameOk, nCrops) ==
    /\ dpc["analysis"].at = "idle"
    /\ initialized' = TRUE
    /\ UNCHANGED <<stage1_targets, stage2_targets>>
    /\ IF nTasks = 0
       THEN \* `if not tasks: return []`
            /\ current_targets' = ensure_initialized
            /\ dret' = [kind |-> "no_tasks", features |-> 0]
            /\ UNCHANGED dpc
       ELSE IF ~frameOk
       THEN \* frame.shape raises inside the try: the handler restores
            /\ current_targets' = Stage2ExceptRestore
            /\ dret' = [kind |-> "exception", features |-> 0]
            /\ UNCHANGED dpc
       ELSE IF nCrops = 0
       THEN \* `if not crops: return []`
            /\ current_targets' = ensure_initialized
            /\ dret' = [kind |-> "no_crops", features |-> 0]
            /\ UNCHANGED dpc
       ELSE \* switch to the Stage-2 vocabulary and await the first crop
            /\ current_targets' = update_prompt(stage2_targets)
            /\ dret' = NoRet
            /\ dpc' = [dpc EXCEPT !["analysis"] =
                          [at |-> "s2_infer", left |-> nCrops, found |-> 0]]
    /\ UNCHANGED notDet

\* one crop's detect_async completes with k sub-detections (k = 0 also when
\* detect_async swallowed an inference error or rate-limited the call); after
\* the last crop the features are assembled, the vocabulary restored and the
\* call returns
DetectStage2Infer(k) ==
    /\ dpc["analysis"].at = "s2_infer"
    /\ UNCHANGED <<initialized, stage1_targets, stage2_targets>>
    /\ LET s == dpc["analysis"] IN
       IF s.left > 1
       THEN /\ dpc' = [dpc EXCEPT !["analysis"] =
                          [at |-> "s2_infer", left |-> s.left - 1, found |-> s.found + k]]
            /\ dret' = NoRet
            /\ UNCHANGED current_targets
       ELSE /\ dpc' = [dpc EXCEPT !["analysis"] = Idle]
            /\ current_targets' = Stage2FinalRestore
            /\ dret' = [kind |-> "features", features |-> s.found + k]
    /\ UNCHANGED notDet

\* detect_stage1 up to the await of detect_async
DetectStage1Call(l) ==
    /\ dpc[l].at = "idle"
    /\ initialized' = TRUE
    /\ current_targets' = update_prompt(stage1_targets)
    /\ dpc' = [dpc EXCEPT ![l] = [at |-> "s1_infer", left |-> 0, found |-> 0]]
    /\ dret' = NoRet
    /\ UNCHANGED <<stage1_targets, stage2_targets>>
    /\ UNCHANGED notDet

\* detect_stage1 returns its DetectionResult (empty on an error)
DetectStage1Return(l) ==
    /\ dpc[l].at = "s1_infer"
    /\ dpc' = [dpc EXCEPT ![l] = Idle]
    /\ dret' = NoRet
    /\ UNCHANGED <<initialized, current_targets, stage1_targets, stage2_targets>>
    /\ UNCHANGED notDet

\* update_stage1_targets: synchronous command; pushed to the client if it exists
UpdateStage1Targets(targets) ==
    /\ stage1_targets' = targets
    /\ current_targets' = IF initialized THEN update_prompt(targets) ELSE current_targets
    /\ dret' = NoRet
    /\ UNCHANGED <<initialized, stage2_targets, dpc>>
    /\ UNCHANGED notDet

\* update_stage2_targets: only recorded
UpdateStage2Targets(targets) ==
    /\ stage2_targets' = targets
    /\ dret' = NoRet
    /\ UNCHANGED <<initialized, current_targets, stage1_targets, dpc>>
    /\ UNCHANGED notDet

NextDetector ==
    \/ \E n \in 0..MaxTasks, ok \in BOOLEAN : \E c \in 0..n : DetectStage2Call(n, ok, c)
    \/ \E k \in 0..MaxSub : DetectStage2Infer(k)
    \/ \E l \in Lanes : DetectStage1Call(l)
    \/ \E l \in Lanes : DetectStage1Return(l)
    \/ \E t \in TargetLists : UpdateStage1Targets(t)
    \/ \E t \in TargetLists : UpdateStage2Targets(t)

----------------------------------------------------------------------------
(* BaseYoloClient._apply_nms / _calculate_iou *)

\* YoloConfig.NMS_THRESHOLD = 0.45, in hundredths
NmsThresholdPct == 45

Max2(a, b) == IF a >= b THEN a ELSE b
Min2(a, b) == IF a <= b THEN a ELSE b

\* boxes <<x1, y1, x2, y2>>: BoxA/BoxB overlap above the threshold, BoxB/BoxC
\* too, BoxA/BoxC below it (a suppression chain)
BoxA == <<0, 0, 10, 10>>
BoxB == <<1, 0, 11, 10>>
BoxC == <<4, 0, 14, 10>>
NmsBoxes == {BoxA, BoxB, BoxC}
NmsClasses == {"person", "car"}
\* confidences in hundredths
ConfLevels == {50, 90}

RawDetections == [class : NmsClasses, confidence : ConfLevels, box : NmsBoxes]

InterArea(boxA, boxB) ==
    Max2(0, Min2(boxA[3], boxB[3]) - Max2(boxA[1], boxB[1]))
      * Max2(0, Min2(boxA[4], boxB[4]) - Max2(boxA[2], boxB[2]))

BoxArea(b) == (b[3] - b[1]) * (b[4] - b[2])

\* _calculate_iou(boxA, boxB) < nms_threshold, in integer arithmetic:
\* 0 when the boxes do not intersect, else inter / (areaA + areaB - inter)
IouBelowNms(boxA, boxB) ==
    LET inter == InterArea(boxA, boxB) IN
    IF inter = 0 THEN TRUE
    ELSE inter * 100 < NmsThresholdPct * (BoxArea(boxA) + BoxArea(boxB) - inter)

\* the classes of `dets` in order of first appearance (dict insertion order)
RECURSIVE ClassOrder(_)
ClassOrder(dets) ==
    IF dets = <<>> THEN <<>>
    ELSE LET c == Head(dets).class IN
         <<c>> \o ClassOrder(SelectSeq(Tail(dets), LAMBDA d : d.class # c))

\* dets.sort(key=confidence, reverse=True): stable, descending
RECURSIVE InsertDesc(_, _)
InsertDesc(d, sorted) ==
    IF sorted = <<>> THEN <<d>>
    ELSE IF Head(sorted).confidence >= d.confidence
         THEN <<Head(sorted)>> \o InsertDesc(d, Tail(sorted))
         ELSE <<d>> \o sorted

RECURSIVE SortDesc(_)
SortDesc(dets) ==
    IF dets = <<>> THEN <<>>
    ELSE InsertDesc(dets[Len(dets)], SortDesc(SubSeq(dets, 1, Len(dets) - 1)))

\* the while loop: keep the best, drop what overlaps it, repeat
RECURSIVE GreedyKeep(_)
GreedyKeep(dets) ==
    IF dets = <<>> THEN <<>>
    ELSE LET best == Head(dets) IN
         <<best>> \o GreedyKeep(SelectSeq(Tail(dets),
                                          LAMBDA d : IouBelowNms(best.box, d.box)))

\* a variant that prepends each class's survivors instead of extending
RECURSIVE NmsGroups_Prepend(_, _)
NmsGroups_Prepend(classes, dets) ==
    IF classes = <<>> THEN <<>>
    ELSE NmsGroups_Prepend(Tail(classes), dets)
           \o GreedyKeep(SortDesc(SelectSeq(dets, LAMBDA d : d.class = Head(classes))))

\* final_dets.extend(keep), class by class
RECURSIVE NmsGroups(_, _)
NmsGroups(classes, dets) ==
    IF classes = <<>> THEN <<>>
    ELSE GreedyKeep(SortDesc(SelectSeq(dets, LAMBDA d : d.class = Head(classes))))
           \o NmsGroups(Tail(classes), dets)

apply_nms(detections) == NmsGroups(ClassOrder(detections), detections)

RECURSIVE SeqsUpTo(_, _)
SeqsUpTo(S, n) ==
    IF n = 0 THEN {<<>>}
    ELSE LET shorter == SeqsUpTo(S, n - 1) IN
         shorter \cup {Append(q, x) : q \in {r \in shorter : Len(r) = n - 1}, x \in S}

NmsIdle ==
    /\ nmsIn = <<>>
    /\ nmsOut = <<>>
    /\ nmsOut2 = <<>>
    /\ nmsPhase = 0

InitNms ==
    /\ nmsIn \in SeqsUpTo(RawDetections, MaxNmsLen)
    /\ nmsOut = <<>>
    /\ nmsOut2 = <<>>
    /\ nmsPhase = 0

\* detect_async post-processes the raw detections
NmsApply ==
    /\ nmsPhase = 0
    /\ nmsOut' = apply_nms(nmsIn)
    /\ nmsPhase' = 1
    /\ UNCHANGED <<nmsIn, nmsOut2>>
    /\ UNCHANGED notNms

\* the suppression pass run on its own output
NmsApplyAgain ==
    /\ nmsPhase = 1
    /\ nmsOut2' = apply_nms(nmsOut)
    /\ nmsPhase' = 2
    /\ UNCHANGED <<nmsIn, nmsOut>>
    /\ UNCHANGED notNms

NextNms ==
    \/ NmsApply
    \/ NmsApplyAgain

\* inputs at the threshold: BoxD and BoxE intersect in 9 of the 20 units of
\* their union, an IOU of exactly 0.45
BoxD == <<0, 0, 14, 1>>
BoxE == <<5, 0, 20, 1>>
ThresholdDetections == [class : NmsClasses, confidence : ConfLevels, box : {BoxD, BoxE}]

InitNmsThreshold ==
    /\ nmsIn \in SeqsUpTo(ThresholdDetections, MaxNmsLen)
    /\ nmsOut = <<>>
    /\ nmsOut2 = <<>>
    /\ nmsPhase = 0

----------------------------------------------------------------------------
(* PerceptionMemory: event lifecycle, over AsyncDBManager's security_events *)

Classes == {"person", "knife"}
\* EyeConfig.BASE_ALERT_CLASSES, as far as Classes goes; StateFilter starts
\* with high_priority_classes equal to it
BaseAlertClasses == {"knife"}

CountMaps == [Classes -> 0..MaxCount]
NoCounts == [c \in Classes |-> 0]
\* the frames of the model: per-class counts of the Stage-1 detections; knives
\* come one at a time
Frames == {f \in CountMaps : f["knife"] <= 1}

\* DetectionResult has no has_detections attribute in common/types.py; it is
\* read here as "the detection list is not empty"
has_detections(class_counts) == \E c \in Classes : class_counts[c] > 0

\* Optional[int] event_id: None
NoId == 0

\* int(time.time() * 1000) reads far above any AUTOINCREMENT id of the table
Epoch == MaxEvents + MaxTime + 1
TimeId == Epoch + now

\* a timestamp is the frame's capture time (a float), the formatted
\* datetime.now() string, or the empty string of a fresh EventState
ClockStamp == [kind |-> "clock", t |-> now]
DateStamp == [kind |-> "datestr", t |-> now]
NoStamp == [kind |-> "empty", t |-> 0]

\* float(start_time) succeeds on the float only
FloatParses(stamp) == stamp.kind = "clock"

FreshEvent ==
    [event_id |-> NoId, max_counts |-> NoCounts, alert_tags |-> {},
     start_time |-> NoStamp, empty_frame_counter |-> 0, is_active |-> FALSE]

\* EventState.reset: start_time is left as it was
EventReset(ev) ==
    [ev EXCEPT !.event_id = NoId, !.max_counts = NoCounts, !.alert_tags = {},
               !.empty_frame_counter = 0, !.is_active = FALSE]

\* EventState.update_counts: running maximum per class
update_counts_Overwrite(max_counts, new_counts) == new_counts
update_counts(max_counts, new_counts) ==
    [c \in Classes |-> Max2(max_counts[c], new_counts[c])]

\* the memory and the table as one value, threaded through the coroutines
Mem == [ev |-> current_event, rows |-> rows, rowid |-> last_rowid,
        closed |-> closed_id, opened |-> opened]

\* AsyncDBManager.start_event: INSERT ... 'ongoing'; returns cursor.lastrowid,
\* or None once _execute_with_retry has given up
DbStartEvent(table, initial_targets, is_abnormal, alert_tags, ok) ==
    IF ok
    THEN Append(table, [status |-> "ongoing", target_data |-> initial_targets,
                        is_abnormal |-> is_abnormal, alert_tags |-> alert_tags])
    ELSE table

\* AsyncDBManager.close_event: UPDATE ... SET status = 'closed' WHERE id = row_id
DbCloseEvent(table, row_id, ok) ==
    IF ok /\ row_id \in 1..Len(table)
    THEN [table EXCEPT ![row_id].status = "closed"]
    ELSE table

\* AsyncDBManager.update_event: UPDATE ... SET target_data, is_abnormal,
\* alert_tags WHERE id = row_id
DbUpdateEvent(table, row_id, max_targets, is_abnormal, alert_tags, ok) ==
    IF ok /\ row_id \in 1..Len(table)
    THEN [table EXCEPT ![row_id].target_data = max_targets,
                       ![row_id].is_abnormal = is_abnormal,
                       ![row_id].alert_tags = alert_tags]
    ELSE table

\* PerceptionMemory._start_event
start_event(m, timestamp, class_counts, is_visual_abnormal, alert_tags, ok) ==
    LET tags == alert_tags \cup (IF is_visual_abnormal THEN {"visual"} ELSE {})
        ev == [event_id |-> TimeId, max_counts |-> class_counts, alert_tags |-> tags,
               start_time |-> timestamp, empty_frame_counter |-> 0, is_active |-> TRUE]
    IN  [m EXCEPT !.ev = ev,
                  !.opened = m.opened + 1,
                  !.rows = IF db_attached
                           THEN DbStartEvent(m.rows, class_counts, is_visual_abnormal, tags, ok)
                           ELSE m.rows,
                  !.rowid = IF db_attached
                            THEN (IF ok THEN Len(m.rows) + 1 ELSE NoId)
                            ELSE m.rowid]

\* PerceptionMemory._close_event
close_event(m, ok) ==
    IF ~m.ev.is_active THEN m
    ELSE [m EXCEPT !.rows = IF db_attached
                            THEN DbCloseEvent(m.rows, m.ev.event_id, ok)
                            ELSE m.rows,
                   !.closed = m.ev.event_id,
                   !.ev = EventReset(m.ev)]

\* PerceptionMemory.update_event (the interface EyeCore.perceive calls);
\* .id is what it returns
update_event(m, class_counts, is_abnormal, alert_tags, ok) ==
    IF ~m.ev.is_active
    THEN LET m2 == start_event(m, DateStamp, class_counts, is_abnormal, alert_tags, ok)
         IN  [m |-> m2, id |-> m2.ev.event_id]
    ELSE LET ev == [m.ev EXCEPT
                      !.max_counts = update_counts(m.ev.max_counts, class_counts),
                      !.alert_tags = IF is_abnormal THEN @ \cup {"visual"} ELSE @]
         IN  [m |-> [m EXCEPT !.ev = ev], id |-> ev.event_id]

\* PerceptionMemory.try_close_event
try_close_event(m, ok) ==
    IF ~m.ev.is_active THEN m
    ELSE LET m2 == [m EXCEPT !.ev.empty_frame_counter = @ + 1] IN
         IF m2.ev.empty_frame_counter >= loss_tolerance THEN close_event(m2, ok) ELSE m2

\* PerceptionMemory._update_event_state; .raised: float(start_time) raised
\* ValueError; .id: the event_id it leaves on the PerceptionResult
update_event_state(m, class_counts, timestamp, alert_tags, id, okClose, okStart) ==
    LET abn == \E c \in BaseAlertClasses : class_counts[c] > 0 IN
    IF has_detections(class_counts)
    THEN LET m1 == [m EXCEPT !.ev.empty_frame_counter = 0] IN
         IF m1.ev.is_active /\ ~FloatParses(m1.ev.start_time)
         THEN [m |-> m1, id |-> id, raised |-> TRUE]
         ELSE IF m1.ev.is_active /\ now - m1.ev.start_time.t > max_event_duration
         THEN LET m2 == start_event(close_event(m1, okClose), timestamp,
                                    class_counts, abn, alert_tags, okStart)
              IN  [m |-> m2, id |-> m2.ev.event_id, raised |-> FALSE]
         ELSE IF ~m1.ev.is_active
         THEN LET m2 == start_event(m1, timestamp, class_counts, abn, alert_tags, okStart)
              IN  [m |-> m2, id |-> m2.ev.event_id, raised |-> FALSE]
         ELSE [m |-> [m1 EXCEPT !.ev.max_counts = update_counts(@, class_counts)],
               id |-> id, raised |-> FALSE]
    ELSE LET m1 == [m EXCEPT !.ev.empty_frame_counter = @ + 1] IN
         [m |-> IF m1.ev.is_active /\ m1.ev.empty_frame_counter >= loss_tolerance
                THEN close_event(m1, okClose) ELSE m1,
          id |-> id, raised |-> FALSE]

\* the PerceptionResult of the frame processed last; in_event records whether
\* an event was open when the frame arrived or was opened by it
NoResult ==
    [processed |-> FALSE, has_det |-> FALSE, event_id |-> NoId, alert_tags |-> {},
     timestamp |-> 0, stored |-> FALSE, in_event |-> FALSE]

InitMemory ==
    /\ now = 0
    /\ loss_tolerance \in 1..MaxTolerance
    /\ max_event_duration \in 1..MaxDuration
    /\ db_attached \in BOOLEAN
    /\ current_event = FreshEvent
    /\ rows = <<>>
    /\ last_rowid = NoId
    /\ closed_id = NoId
    /\ opened = 0
    /\ result = NoResult
    /\ empties = 0
    /\ submitted = 0
    /\ fed = 0

MemIdle ==
    /\ now = 0
    /\ loss_tolerance = 1
    /\ max_event_duration = 1
    /\ db_attached = FALSE
    /\ current_event = FreshEvent
    /\ rows = <<>>
    /\ last_rowid = NoId
    /\ closed_id = NoId
    /\ opened = 0
    /\ result = NoResult
    /\ empties = 0
    /\ submitted = 0
    /\ fed = 0

\* store counts empty frames with no event open too; the model stops counting
\* one past the largest tolerance
MaxEmpty == MaxTolerance + 1

\* the memory's variables take the values of m
SetMem(m) ==
    /\ m.opened <= MaxEvents
    /\ m.ev.empty_frame_counter <= MaxEmpty
    /\ UNCHANGED <<now, loss_tolerance, max_event_duration, db_attached>>
    /\ current_event' = m.ev
    /\ rows' = m.rows
    /\ last_rowid' = m.rowid
    /\ closed_id' = m.closed
    /\ opened' = m.opened

\* the wall clock advances
Tick ==
    /\ now < MaxTime
    /\ now' = now + 1
    /\ UNCHANGED <<loss_tolerance, max_event_duration, db_attached, current_event,
                   rows, last_rowid, closed_id, opened, result, empties, submitted, fed>>
    /\ UNCHANGED notMem

\* --- the memory driven through its own interface ---

\* EyeCore._check_visual_risks and the tags perceive derives from it
visual_risks(class_counts) == {c \in BaseAlertClasses : class_counts[c] > 0}
visual_tags(class_counts) == IF visual_risks(class_counts) # {} THEN {"visual"} ELSE {}

\* await memory.update_event(class_counts, is_abnormal, alert_tags), with the
\* arguments a caller derives from the frame
MemUpdateEvent(class_counts, ok) ==
    /\ has_detections(class_counts)
    /\ LET r == update_event(Mem, class_counts, visual_risks(class_counts) # {},
                             visual_tags(class_counts), ok) IN
       /\ SetMem(r.m)
       /\ submitted' = IF r.m.opened = opened THEN submitted ELSE 0
    /\ empties' = 0
    /\ UNCHANGED <<result, fed>>
    /\ UNCHANGED notMem

\* await memory.try_close_event()
MemTryCloseEvent(ok) ==
    /\ empties < MaxEmpty
    /\ LET m == try_close_event(Mem, ok) IN
       /\ SetMem(m)
       /\ submitted' = IF m.ev.is_active THEN submitted ELSE 0
    /\ empties' = empties + 1
    /\ UNCHANGED <<result, fed>>
    /\ UNCHANGED notMem

\* the feature list an EventState accumulates: the class has no such field
EventFeatures(ev) == <<>>

\* await memory.store(perception_result), the result carrying the frame's
\* capture time and `embeddings` novel embeddings of one tracked identity;
\* store reads detection_result, timestamp and alert_tags only, and catches
\* what _update_event_state raises.  event_history, a log that no transition
\* reads, is left out.
MemStore(class_counts, embeddings, okClose, okStart) ==
    /\ has_detections(class_counts) \/ (embeddings = 0 /\ empties < MaxEmpty)
    /\ LET r == update_event_state(Mem, class_counts, ClockStamp, visual_tags(class_counts),
                                   NoId, okClose, okStart) IN
       /\ SetMem(r.m)
       /\ submitted' = IF ~r.m.ev.is_active THEN 0
                       ELSE IF r.m.opened = opened THEN submitted + embeddings
                       ELSE embeddings
       /\ submitted' <= MaxEmbeddings
    /\ empties' = IF has_detections(class_counts) THEN 0 ELSE empties + 1
    /\ UNCHANGED <<result, fed>>
    /\ UNCHANGED notMem

NextMemory ==
    \/ Tick
    \/ \E f \in Frames, ok \in BOOLEAN : MemUpdateEvent(f, ok)
    \/ \E ok \in BOOLEAN : MemTryCloseEvent(ok)
    \/ \E f \in Frames, e \in 0..MaxEmbeddings, okc \in BOOLEAN, oks \in BOOLEAN :
          MemStore(f, e, okc, oks)

----------------------------------------------------------------------------
(* EyeCore: one pass of _analysis_loop, perceive followed by store *)

\* perceive names two methods nobody defines: object_detector.detect, read as
\* detect_stage1 (its result is the frame's class counts), and
\* state_filter.should_trigger_vlm, read as "check_refinement_needs returned
\* scene-analysis candidates" (should_analyze).  vlm is what
\* SceneAnalyzer.analyze returned: "none", "normal" or "abnormal".
VlmOutcomes == {"none", "normal", "abnormal"}

perceive(m, class_counts, should_analyze, vlm, ok) ==
    IF has_detections(class_counts)
    THEN LET tags == visual_tags(class_counts)
             r == update_event(m, class_counts, "visual" \in tags, tags, ok)
         IN  [m |-> r.m,
              id |-> r.id,
              tags |-> IF should_analyze /\ r.id # NoId /\ vlm = "abnormal"
                       THEN tags \cup {"behavior"} ELSE tags]
    ELSE [m |-> try_close_event(m, ok), id |-> NoId, tags |-> {}]

\* ok: the database answers during this pass
AnalysisCycle(class_counts, should_analyze, vlm, ok) ==
    /\ LET p == perceive(Mem, class_counts, should_analyze, vlm, ok)
           r == update_event_state(p.m, class_counts, ClockStamp, p.tags, p.id, ok, ok)
       IN  /\ SetMem(r.m)
           /\ result' = [processed |-> TRUE,
                         has_det |-> has_detections(class_counts),
                         event_id |-> r.id,
                         alert_tags |-> p.tags,
                         timestamp |-> now,
                         stored |-> ~r.raised,
                         in_event |-> current_event.is_active \/ r.m.opened > opened]
    /\ UNCHANGED <<empties, submitted>>

EyeCycle(class_counts, should_analyze, vlm, ok) ==
    /\ AnalysisCycle(class_counts, should_analyze, vlm, ok)
    /\ UNCHANGED fed
    /\ UNCHANGED notMem

\* EyeCore.initialize has attached the database
InitEye ==
    /\ InitMemory
    /\ db_attached

\* what the state filter and the scene analyzer can answer for a frame:
\* nothing is analysed on an empty frame or when the filter names no candidate
Analyses(class_counts) ==
    IF has_detections(class_counts)
    THEN {<<FALSE, "none">>} \cup {<<TRUE, v>> : v \in VlmOutcomes}
    ELSE {<<FALSE, "none">>}

NextEye ==
    \/ Tick
    \/ \E f \in Frames, ok \in BOOLEAN :
          \E a \in Analyses(f) : EyeCycle(f, a[1], a[2], ok)

\* --- the scripted run: ScenarioDetCycles cycles that detect one person, then
\* loss_tolerance + 1 cycles that detect nothing, the database answering ---
OnePerson == [c \in Classes |-> IF c = "person" THEN 1 ELSE 0]

ScriptFrame == IF fed < ScenarioDetCycles THEN OnePerson ELSE NoCounts

ScenarioCycle(should_analyze, vlm) ==
    /\ fed < ScenarioDetCycles + loss_tolerance + 1
    /\ AnalysisCycle(ScriptFrame, should_analyze, vlm, TRUE)
    /\ fed' = fed + 1
    /\ UNCHANGED notMem

NextScenario ==
    \/ Tick
    \/ \E a \in Analyses(ScriptFrame) : ScenarioCycle(a[1], a[2])

----------------------------------------------------------------------------
(* AsyncDBManager: the write coroutines, called directly *)

DbCallers == {"a", "b"}
\* AsyncDBManager.max_retries
MaxRetries == 3
NoCall == [op |-> "none", row_id |-> NoId, targets |-> NoCounts, attempt |-> 0]

InitDb ==
    /\ dbcall = [c \in DbCallers |-> NoCall]
    /\ dbIssued = 0
    /\ updIssued = 0
    /\ updBatches = 0

\* a caller awaits start_event / update_event / close_event
DbIssue(c, op, row_id, targets) ==
    /\ dbcall[c].op = "none"
    /\ dbIssued < MaxOps
    /\ dbcall' = [dbcall EXCEPT ![c] = [op |-> op, row_id |-> row_id,
                                        targets |-> targets, attempt |-> 0]]
    /\ dbIssued' = dbIssued + 1
    /\ updIssued' = IF op = "update_event" THEN updIssued + 1 ELSE updIssued
    /\ UNCHANGED <<updBatches, rows, last_rowid>>
    /\ UNCHANGED notDb

\* the statement a suspended coroutine executes
DbStatement(call, ok) ==
    IF call.op = "start_event"
    THEN DbStartEvent(rows, call.targets, visual_risks(call.targets) # {},
                      visual_tags(call.targets), ok)
    ELSE IF call.op = "update_event"
    THEN DbUpdateEvent(rows, call.row_id, call.targets, visual_risks(call.targets) # {},
                       visual_tags(call.targets), ok)
    ELSE DbCloseEvent(rows, call.row_id, ok)

\* one pass of the loop of _execute_with_retry: the statement executes and
\* commits, and the coroutine returns to its caller; or it raises, and the
\* coroutine retries after the back-off or, on the last attempt, gives up
DbAttempt(c, ok) ==
    /\ dbcall[c].op # "none"
    /\ rows' = DbStatement(dbcall[c], ok)
    /\ last_rowid' = IF dbcall[c].op = "start_event"
                     THEN (IF ok THEN Len(rows) + 1
                           ELSE IF dbcall[c].attempt = MaxRetries - 1 THEN NoId
                           ELSE last_rowid)
                     ELSE last_rowid
    /\ updBatches' = IF ok /\ dbcall[c].op = "update_event"
                     THEN updBatches + 1 ELSE updBatches
    /\ dbcall' = [dbcall EXCEPT ![c] =
                     IF ok \/ dbcall[c].attempt = MaxRetries - 1 THEN NoCall
                     ELSE [@ EXCEPT !.attempt = @ + 1]]
    /\ UNCHANGED <<dbIssued, updIssued>>
    /\ UNCHANGED notDb

\* the calls a caller can make: the row it names and the counts it passes
DbCalls ==
    {<<"start_event", NoId, t>> : t \in {f \in Frames : has_detections(f)}}
      \cup {<<"update_event", r, t>> : r \in 1..MaxEvents,
                                       t \in {f \in Frames : has_detections(f)}}
      \cup {<<"close_event", r, NoCounts>> : r \in 1..MaxEvents}

NextDb ==
    \/ \E c \in DbCallers, call \in DbCalls : DbIssue(c, call[1], call[2], call[3])
    \/ \E c \in DbCallers, ok \in BOOLEAN : DbAttempt(c, ok)

----------------------------------------------------------------------------
(* StateFilter: the IOU tracker behind the Stage-2 / scene-analysis triggers *)

\* EyeConfig.IOU_THRESHOLD, in percent
IouThresholdPct == 85
\* EyeConfig.MOVEMENT_THRESHOLD, in pixels
MovementThreshold == 20
\* EyeConfig.RECHECK_INTERVAL and the intervals update_policy sets, in seconds
RecheckNormal == 15
RecheckHigh == 5
RecheckLow == 60
\* the cool-down of trigger B, in seconds
RefineCooldown == 2

\* a 100-pixel box and the same box moved by (5, 5); a 300-pixel box and the
\* same box moved right by 3, 24 and 45 pixels
FilterBoxes ==
    {<<100, 100, 200, 200>>, <<105, 105, 205, 205>>,
     <<0, 0, 300, 300>>, <<3, 0, 303, 300>>, <<24, 0, 324, 300>>, <<45, 0, 345, 300>>}
FilterDets == [class : Classes, box : FilterBoxes]
NoDet == [class |-> "none", box |-> <<0, 0, 0, 0>>]
\* frames of at most one detection
FilterFrames == {<<>>} \cup {<<d>> : d \in FilterDets}

\* StateFilter._calculate_iou(boxA, boxB) > iou_threshold
IouAboveThreshold(boxA, boxB) ==
    LET xA == Max2(boxA[1], boxB[1])
        yA == Max2(boxA[2], boxB[2])
        xB == Min2(boxA[3], boxB[3])
        yB == Min2(boxA[4], boxB[4])
        interArea == Max2(0, xB - xA) * Max2(0, yB - yA)
        boxAArea == (boxA[3] - boxA[1]) * (boxA[4] - boxA[2])
        boxBArea == (boxB[3] - boxB[1]) * (boxB[4] - boxB[2])
        union == boxAArea + boxBArea - interArea
    IN  IF interArea <= 0 \/ union = 0 THEN FALSE
        ELSE interArea * 100 > IouThresholdPct * union

\* twice the centre of a box, and the squared distance of two doubled centres
Center2(box) == <<box[1] + box[3], box[2] + box[4]>>
Dist2Sq(boxA, boxB) ==
    LET a == Center2(boxA)
        b == Center2(boxB)
    IN  (a[1] - b[1]) * (a[1] - b[1]) + (a[2] - b[2]) * (a[2] - b[2])
\* math.sqrt(dx ** 2 + dy ** 2) > t  and  ... < t
DistAbove(boxA, boxB, t) == Dist2Sq(boxA, boxB) > 4 * t * t
DistBelow(boxA, boxB, t) == Dist2Sq(boxA, boxB) < 4 * t * t
\* boxB is boxA moved: same width and height
Translated(boxA, boxB) ==
    /\ boxA[3] - boxA[1] = boxB[3] - boxB[1]
    /\ boxA[4] - boxA[2] = boxB[4] - boxB[2]

\* indices of the tracked objects a detection matches
Matches(tracked, det) ==
    {i \in 1..Len(tracked) :
        tracked[i].class = det.class /\ IouAboveThreshold(det.box, tracked[i].box)}
FirstMatch(tracked, det) ==
    CHOOSE i \in Matches(tracked, det) : \A j \in Matches(tracked, det) : i <= j

\* a new target gets a refine task
NewTargetRefine_HighRisk(det) == det.class \in high_priority_classes
NewTargetRefine(det) == TRUE

\* trigger C: `(current_time - prev_obj['last_check_time']) > self.recheck_interval`
RecheckDue_Always(elapsed) == TRUE
RecheckDue(elapsed) == elapsed > recheck_interval

\* trigger B: `(current_time - prev_obj['last_check_time']) > 2.0`
CooledDown_AtLeast(elapsed) == elapsed >= RefineCooldown
CooledDown(elapsed) == elapsed > RefineCooldown

\* the body of the loop of check_refinement_needs for one detection
TrackDetection(tracked, det) ==
    LET is_high_risk == det.class \in high_priority_classes IN
    IF Matches(tracked, det) # {}
    THEN LET prev_obj == tracked[FirstMatch(tracked, det)]
             is_moving == DistAbove(det.box, prev_obj.box, MovementThreshold)
             state_changed == ~prev_obj.is_moving /\ is_moving
             branchB == ~state_changed /\ is_high_risk /\ is_moving
             branchC == ~state_changed /\ ~branchB
                          /\ RecheckDue(fclock - prev_obj.last_check_time)
             cooled == CooledDown(fclock - prev_obj.last_check_time)
             obj == [prev_obj EXCEPT
                       !.box = det.box,
                       !.is_moving = is_moving,
                       !.last_check_time =
                           IF (branchB /\ cooled) \/ branchC THEN fclock ELSE @]
         IN  [obj |-> obj, ids |-> next_id,
              refine |-> state_changed \/ (branchB /\ cooled) \/ (branchC /\ is_high_risk),
              vlm |-> state_changed \/ branchC]
    ELSE [obj |-> [id |-> next_id + 1, class |-> det.class, box |-> det.box,
                   last_check_time |-> fclock, is_moving |-> FALSE],
          ids |-> next_id + 1, refine |-> NewTargetRefine(det), vlm |-> TRUE]

InitFilter ==
    /\ tracked_objects = <<>>
    /\ next_id = 0
    /\ current_risk_level = "normal"
    /\ recheck_interval = RecheckNormal
    /\ high_priority_classes = BaseAlertClasses
    /\ fclock = 0
    /\ policy = [called |-> FALSE, targets |-> {}]
    /\ fret = [seq |-> 0, det |-> NoDet, track_id |-> 0, refine |-> FALSE, vlm |-> FALSE]

\* new_priority as update_policy builds it
new_priority_Accumulate(risk_level, dynamic_targets) ==
    IF risk_level = "high" THEN high_priority_classes \cup dynamic_targets
    ELSE high_priority_classes
new_priority(risk_level, dynamic_targets) ==
    IF risk_level = "high" THEN BaseAlertClasses \cup dynamic_targets
    ELSE BaseAlertClasses

\* StateFilter.update_policy(risk_level, dynamic_targets)
UpdatePolicy(risk_level, dynamic_targets) ==
    /\ current_risk_level' = risk_level
    /\ recheck_interval' = IF risk_level = "high" THEN RecheckHigh
                           ELSE IF risk_level = "low" THEN RecheckLow
                           ELSE RecheckNormal
    /\ high_priority_classes' = new_priority(risk_level, dynamic_targets)
    /\ policy' = [called |-> TRUE, targets |-> dynamic_targets]
    /\ UNCHANGED <<tracked_objects, next_id, fclock, fret>>
    /\ UNCHANGED notFilt

\* StateFilter.check_refinement_needs(current_detections)
CheckRefinementNeeds(current_detections) ==
    /\ IF current_detections = <<>>
       THEN /\ tracked_objects' = <<>>
            /\ next_id' = next_id
            /\ fret' = [seq |-> 1 - fret.seq, det |-> NoDet, track_id |-> 0,
                        refine |-> FALSE, vlm |-> FALSE]
       ELSE LET r == TrackDetection(tracked_objects, current_detections[1]) IN
            /\ r.ids <= MaxIds
            /\ tracked_objects' = <<r.obj>>
            /\ next_id' = r.ids
            /\ fret' = [seq |-> 1 - fret.seq, det |-> current_detections[1],
                        track_id |-> r.obj.id, refine |-> r.refine, vlm |-> r.vlm]
    /\ UNCHANGED <<current_risk_level, recheck_interval, high_priority_classes, fclock,
                   policy>>
    /\ UNCHANGED notFilt

FilterTick ==
    /\ fclock < MaxFilterClock
    /\ fclock' = fclock + 1
    /\ UNCHANGED <<tracked_objects, next_id, current_risk_level, recheck_interval,
                   high_priority_classes, policy, fret>>
    /\ UNCHANGED notFilt

\* the update_policy calls a run makes: risk_level, dynamic_targets
PolicyCalls ==
    {<<"high", {"person"}>>, <<"high", {}>>, <<"normal", {}>>, <<"low", {"person"}>>}

NextFilter ==
    \/ FilterTick
    \/ \E call \in PolicyCalls : UpdatePolicy(call[1], call[2])
    \/ \E f \in FilterFrames : CheckRefinementNeeds(f)

----------------------------------------------------------------------------

(* SceneAnalyzer (eye/analysis/scene_analyzer.py) *)

\* analyze calls the model follows; a caller makes one call
MaxCallers == 4
\* last second the model lets the event loop's clock reach
MaxAClock == 120
\* most seconds one step of the clock advances it
ClockStep == 30

\* Semaphore(3)
SemaphoreLimit == 3
\* asyncio.wait_for(future, timeout=60.0)
AnalyzeTimeout == 60
\* json_response[:100]
DescriptionLimit == 100

Callers == 1..MaxCallers
NoRequest == 0

\* A response of the model, by what _do_analysis and _parse_response look at:
\* its form once the code fences and the text around the outermost braces
\* are stripped, the keys of the object, the value under "is_abnormal", and
\* the length of the raw text.
\*   "null"       no response (None)
\*   "empty"      the empty string
\*   "emptyobj"   exactly the text "{}"
\*   "malformed"  text json.loads rejects
\*   "scalar"     well-formed JSON that is not an object: a list, a string, a number
\*   "object"     a JSON object
ResponseKeys == {"description", "is_abnormal", "reason", "error"}
AbnValues == {"true", "false", "string", "null"}
ResponseLens == {40, 140}
Responses ==
    {[form |-> "null", keys |-> {}, abn |-> "absent", len |-> 0],
     [form |-> "empty", keys |-> {}, abn |-> "absent", len |-> 0],
     [form |-> "emptyobj", keys |-> {}, abn |-> "absent", len |-> 2]}
    \cup [form : {"malformed", "scalar"}, keys : {{}}, abn : {"absent"}, len : ResponseLens]
    \cup {r \in [form : {"object"}, keys : SUBSET ResponseKeys,
                 abn : AbnValues \cup {"absent"}, len : ResponseLens] :
             (r.abn = "absent") <=> ("is_abnormal" \notin r.keys)}

\* the payload vlm_client._send_request returns for a 4xx status or after its
\* last retry: {"error": "..."}
ErrorPayload == [form |-> "object", keys |-> {"error"}, abn |-> "absent", len |-> 40]
\* a response of the shape the prompt asks for
GoodResponse == [form |-> "object", keys |-> {"description", "is_abnormal", "reason"},
                 abn |-> "true", len |-> 140]

\* AnalysisResult(description, is_abnormal, reason); a description is named by
\* where its text comes from and how long it is
AnalysisResult(src, len, is_abnormal, reason) ==
    [description |-> [src |-> src, len |-> len], is_abnormal |-> is_abnormal,
     reason |-> reason]
\* None, and the value of a variable nothing was assigned to yet
NoneResult == AnalysisResult("none", 0, FALSE, "none")
NoValue == AnalysisResult("unset", 0, FALSE, "unset")

\* bool(res.get("is_abnormal", False))
AbnBool(resp) == resp.abn \in {"true", "string"}

\* SceneAnalyzer._parse_response
parse_response(resp) ==
    CASE resp.form = "malformed" ->
            \* except json.JSONDecodeError
            AnalysisResult("raw", Min2(resp.len, DescriptionLimit), FALSE, "empty")
      [] resp.form \in {"object", "emptyobj"} ->
            AnalysisResult(IF "description" \in resp.keys THEN "field" ELSE "default",
                           0, AbnBool(resp),
                           IF "reason" \in resp.keys THEN "field" ELSE "empty")
      [] OTHER ->
            \* res.get on a value that is no dict: AttributeError, except Exception
            NoneResult

\* SceneAnalyzer._do_analysis, after vlm_client.analyze_frames returned resp
do_analysis(resp) ==
    IF resp.form \in {"null", "empty", "emptyobj"} THEN NoneResult
    ELSE parse_response(resp)

\* _analysis_worker awaits _do_analysis before it takes the next request
WorkerAwaitsAnalysis_Not == FALSE
WorkerAwaitsAnalysis == TRUE

\* asyncio.wait_for arms a timer for the call of caller c
TimerArmed_Not(c) == FALSE
TimerArmed(c) == acall[c].at = "waiting"

Deadline(c) == acall[c].start + AnalyzeTimeout

IdleCaller == [at |-> "idle", future |-> "none", start |-> 0, value |-> NoValue,
               analysed |-> FALSE]
IdleWorker == [at |-> "get", req |-> NoRequest]

ParseIdle == presp = GoodResponse /\ pout = NoValue

\* SceneAnalyzer.__init__
InitAnalyzer ==
    /\ request_queue = <<>>
    /\ semaphore = SemaphoreLimit
    /\ worker = IdleWorker
    /\ inflight = {}
    /\ acall = [c \in Callers |-> IdleCaller]
    /\ aclock = 0
    /\ ParseIdle

AnalyzerIdle == InitAnalyzer

\* analyze, up to its await on the future: the request is queued
AnalyzeCall(c) ==
    /\ acall[c].at = "idle"
    /\ \A d \in Callers : d < c => acall[d].at # "idle"
    /\ request_queue' = Append(request_queue, c)
    /\ acall' = [acall EXCEPT ![c] = [at |-> "waiting", future |-> "pending",
                                      start |-> aclock, value |-> NoValue,
                                      analysed |-> FALSE]]
    /\ UNCHANGED <<semaphore, worker, inflight, aclock, presp, pout>>
    /\ UNCHANGED notAna

\* _analysis_worker: request_queue.get returns, the semaphore is entered and
\* _do_analysis sends the request to the model
WorkerTake ==
    /\ worker.at = "get"
    /\ request_queue # <<>>
    /\ semaphore > 0
    /\ LET r == Head(request_queue) IN
        /\ request_queue' = Tail(request_queue)
        /\ inflight' = inflight \cup {r}
        /\ IF WorkerAwaitsAnalysis
           THEN /\ worker' = [at |-> "run", req |-> r]
                /\ semaphore' = semaphore - 1
           ELSE UNCHANGED <<worker, semaphore>>
    /\ UNCHANGED <<acall, aclock, presp, pout>>
    /\ UNCHANGED notAna

\* the model call of request r returns resp; _do_analysis returns and the
\* worker runs request.callback, which is future.set_result. On a future the
\* timeout cancelled set_result raises InvalidStateError, the except branch
\* calls the callback again, which raises again, and the worker task ends.
AnalysisDone(r, resp) ==
    /\ r \in inflight
    /\ inflight' = inflight \ {r}
    /\ acall' = [acall EXCEPT ![r].analysed = TRUE,
                              ![r].future = IF @ = "pending" THEN "done" ELSE @,
                              ![r].value = IF acall[r].future = "pending"
                                           THEN do_analysis(resp) ELSE @]
    /\ IF worker.req = r
       THEN /\ semaphore' = semaphore + 1
            /\ worker' = [at |-> IF acall[r].future = "pending" THEN "get" ELSE "dead",
                          req |-> NoRequest]
       ELSE UNCHANGED <<worker, semaphore>>
    /\ UNCHANGED <<request_queue, aclock, presp, pout>>
    /\ UNCHANGED notAna

\* analyze: the future is done, wait_for returns its result
AnalyzeReturn(c) ==
    /\ acall[c].at = "waiting"
    /\ acall[c].future = "done"
    /\ acall' = [acall EXCEPT ![c].at = "returned"]
    /\ UNCHANGED <<request_queue, semaphore, worker, inflight, aclock, presp, pout>>
    /\ UNCHANGED notAna

\* analyze: the timer of wait_for fires, the future is cancelled and analyze
\* returns None
AnalyzeTimedOut(c) ==
    /\ TimerArmed(c)
    /\ acall[c].future = "pending"
    /\ aclock = Deadline(c)
    /\ acall' = [acall EXCEPT ![c].at = "returned", ![c].future = "cancelled",
                              ![c].value = NoneResult]
    /\ UNCHANGED <<request_queue, semaphore, worker, inflight, aclock, presp, pout>>
    /\ UNCHANGED notAna

RECURSIVE MinOf(_)
MinOf(S) == LET x == CHOOSE y \in S : TRUE IN
            IF S = {x} THEN x ELSE Min2(x, MinOf(S \ {x}))

\* time passes, up to the next armed timer
AnalyzerTick ==
    /\ aclock < MaxAClock
    /\ aclock' = MinOf({aclock + ClockStep, MaxAClock}
                       \cup {Deadline(c) : c \in {d \in Callers : TimerArmed(d)}})
    /\ aclock' > aclock
    /\ UNCHANGED <<request_queue, semaphore, worker, inflight, acall, presp, pout>>
    /\ UNCHANGED notAna

\* the responses the worker's model calls return in SpecAnalyzer
WorkerResponses == {GoodResponse, ErrorPayload}

NextAnalyzer ==
    \/ \E c \in Callers : AnalyzeCall(c)
    \/ WorkerTake
    \/ \E r \in Callers, resp \in WorkerResponses : AnalysisDone(r, resp)
    \/ \E c \in Callers : AnalyzeReturn(c)
    \/ \E c \in Callers : AnalyzeTimedOut(c)
    \/ AnalyzerTick

\* _do_analysis applied to one response
InitParse ==
    /\ request_queue = <<>>
    /\ semaphore = SemaphoreLimit
    /\ worker = IdleWorker
    /\ inflight = {}
    /\ acall = [c \in Callers |-> IdleCaller]
    /\ aclock = 0
    /\ presp \in Responses
    /\ pout = NoValue

ParseResponse ==
    /\ pout = NoValue
    /\ pout' = do_analysis(presp)
    /\ UNCHANGED <<request_queue, semaphore, worker, inflight, acall, aclock, presp>>
    /\ UNCHANGED notAna

NextParse == ParseResponse

----------------------------------------------------------------------------

(* FrameBuffer (eye/capture/frame_buffer.py) *)

\* largest fps, and the longest duration in half seconds, a buffer is built with
MaxFps == 2
MaxHalfSeconds == 3
\* most frames a run adds
MaxFrames == 5

\* int(self.fps * 2)
TriggerSeconds == 2

\* deque(maxlen).append
DequeAppend_DropNewest(buf, x, maxlen) ==
    IF Len(buf) >= maxlen THEN buf ELSE Append(buf, x)
DequeAppend(buf, x, maxlen) ==
    IF maxlen = 0 THEN <<>>
    ELSE IF Len(buf) = maxlen THEN Append(Tail(buf), x)
    ELSE Append(buf, x)

\* add sets the event
AddSetsEvent_Not == FALSE
AddSetsEvent == TRUE

NoSnapshot == [valid |-> FALSE, frames |-> <<>>, arrived |-> 0, cleared_at |-> 0]

\* FrameBuffer.__init__(duration, fps), duration = half / 2 seconds:
\* maxlen = int(fps * duration)
BufferBuilt(fps, half) ==
    /\ context_maxlen = (fps * half) \div 2
    /\ trigger_maxlen = fps * TriggerSeconds
    /\ context_buffer = <<>>
    /\ trigger_buffer = <<>>
    /\ new_data_event = FALSE
    /\ arrived = 0
    /\ cleared_at = 0
    /\ added_since_clear = FALSE
    /\ got = NoSnapshot
    /\ bwait = "idle"

InitBuffer == \E fps \in 1..MaxFps, half \in 1..MaxHalfSeconds : BufferBuilt(fps, half)

BufferIdle == BufferBuilt(1, 2)

\* the body of FrameBuffer.add, run under the lock without an await; the
\* frame is named by its arrival number
AddFrame ==
    /\ arrived < MaxFrames
    /\ arrived' = arrived + 1
    /\ context_buffer' = DequeAppend(context_buffer, arrived + 1, context_maxlen)
    /\ trigger_buffer' = DequeAppend(trigger_buffer, arrived + 1, trigger_maxlen)
    /\ new_data_event' = IF AddSetsEvent THEN TRUE ELSE new_data_event
    /\ added_since_clear' = TRUE
    /\ UNCHANGED <<context_maxlen, trigger_maxlen, cleared_at, got, bwait>>

\* FrameBuffer.add
BufAdd ==
    /\ AddFrame
    /\ UNCHANGED notBuf

\* FrameBuffer.get_frames(clear_trigger)
BufGetFrames(clear_trigger) ==
    /\ got' = [valid |-> TRUE, frames |-> context_buffer, arrived |-> arrived,
               cleared_at |-> cleared_at]
    /\ IF clear_trigger
       THEN /\ trigger_buffer' = <<>>
            /\ new_data_event' = FALSE
            /\ added_since_clear' = FALSE
       ELSE UNCHANGED <<trigger_buffer, new_data_event, added_since_clear>>
    /\ UNCHANGED <<context_maxlen, trigger_maxlen, context_buffer, arrived, cleared_at, bwait>>
    /\ UNCHANGED notBuf

\* FrameBuffer.clear
BufClear ==
    /\ context_buffer' = <<>>
    /\ trigger_buffer' = <<>>
    /\ new_data_event' = FALSE
    /\ added_since_clear' = FALSE
    /\ cleared_at' = arrived
    /\ UNCHANGED <<context_maxlen, trigger_maxlen, arrived, got, bwait>>
    /\ UNCHANGED notBuf

\* wait_for_new_data is called: the consumer waits on the event
BufWaitCall ==
    /\ bwait \in {"idle", "true", "false"}
    /\ bwait' = "waiting"
    /\ UNCHANGED <<context_maxlen, trigger_maxlen, context_buffer, trigger_buffer,
                   new_data_event, arrived, cleared_at, added_since_clear, got>>
    /\ UNCHANGED notBuf

\* wait_for_new_data: the event is set, return True
BufWaitReturn ==
    /\ bwait = "waiting"
    /\ new_data_event
    /\ bwait' = "true"
    /\ UNCHANGED <<context_maxlen, trigger_maxlen, context_buffer, trigger_buffer,
                   new_data_event, arrived, cleared_at, added_since_clear, got>>
    /\ UNCHANGED notBuf

\* wait_for_new_data: the timeout elapses with the event not set, return False
BufWaitTimeout ==
    /\ bwait = "waiting"
    /\ ~new_data_event
    /\ bwait' = "false"
    /\ UNCHANGED <<context_maxlen, trigger_maxlen, context_buffer, trigger_buffer,
                   new_data_event, arrived, cleared_at, added_since_clear, got>>
    /\ UNCHANGED notBuf

NextBuffer ==
    \/ BufAdd
    \/ \E clear_trigger \in BOOLEAN : BufGetFrames(clear_trigger)
    \/ BufClear
    \/ BufWaitCall
    \/ BufWaitReturn
    \/ BufWaitTimeout

\* EyeCore.get_context_frames(): `await self.frame_buffer.get_frames()`, the
\* clear_trigger parameter left at its default
GetContextFrames == BufGetFrames(TRUE)

\* the capture loop adds frames, the recording loop reads the context, the
\* analysis loop waits for new data
NextContextRead ==
    \/ BufAdd
    \/ GetContextFrames
    \/ BufWaitCall
    \/ BufWaitReturn
    \/ BufWaitTimeout

\* the frames that arrived after frame lo, up to frame hi, the last n of them
Recent(lo, hi, n) ==
    LET first == Max2(lo, hi - n) + 1 IN
    [i \in 1..(IF hi >= first THEN hi - first + 1 ELSE 0) |-> first + i - 1]

----------------------------------------------------------------------------

(* VideoCapture (eye/capture/video_capture.py) and EyeCore._capture_loop *)

\* frames the model tells apart by their number; later frames share the last
MaxReads == 3

\* what one self._cap.read in the executor comes back with: a frame, ret =
\* False, or an exception. stop() may release the capture while the read
\* runs in its thread, so no outcome is excluded after a release.
ReadOutcomes == {"ok", "fail", "raise"}

\* where the loop goes when a read returned ret = False
AfterFailedRead_Break == "break"
AfterFailedRead == "reconnect"

\* VideoCapture.start has returned
StartExited == cpc \in {"loop_check", "loop_yield", "done"}

\* EyeCore.__init__ / VideoCapture.__init__
InitCapture ==
    /\ cap_running = FALSE
    /\ cap_open = "none"
    /\ cpc = "idle"
    /\ latest_no = 0
    /\ eye_running = FALSE
    /\ stop_called = FALSE
    /\ added_no = 0

CaptureIdle == InitCapture

\* EyeCore.start creates the capture task; the task's first step enters
\* _capture_loop and VideoCapture.start, up to the first test of the loop
\* condition. The capture component takes the two as one step and follows
\* the read loop from its entry on; EyeStartTasks and CaptureTaskBegins below
\* take them apart, with the stop calls that may fall in between.
EyeStart ==
    /\ cpc = "idle"
    /\ eye_running' = TRUE
    /\ cap_running' = TRUE
    /\ cap_open' = "open"
    /\ cpc' = "check"
    /\ UNCHANGED <<latest_no, stop_called, added_no>>
    /\ UNCHANGED bufVars
    /\ UNCHANGED notCap

\* VideoCapture.stop
VideoStop ==
    /\ cap_running' = FALSE
    /\ cap_open' = IF cap_open = "none" THEN "none" ELSE "released"
    /\ stop_called' = TRUE

\* EyeCore.stop
EyeStop ==
    /\ cpc # "idle"
    /\ eye_running' = FALSE
    /\ VideoStop
    /\ UNCHANGED <<cpc, latest_no, added_no>>
    /\ UNCHANGED bufVars
    /\ UNCHANGED notCap

\* EyeCore.close: stops the capture, leaves EyeCore._running alone
EyeClose ==
    /\ cpc # "idle"
    /\ VideoStop
    /\ UNCHANGED <<cpc, latest_no, eye_running, added_no>>
    /\ UNCHANGED bufVars
    /\ UNCHANGED notCap

\* VideoCapture.start: `while self._running`, then either the read is handed
\* to the executor or the loop is left and the capture released
CapCheck ==
    /\ cpc \in {"check", "break"}
    /\ IF cap_running /\ cpc = "check"
       THEN /\ cpc' = "read"
            /\ UNCHANGED cap_open
       ELSE /\ cpc' = "loop_check"
            /\ cap_open' = "released"
    /\ UNCHANGED <<cap_running, latest_no, eye_running, stop_called, added_no>>
    /\ UNCHANGED bufVars
    /\ UNCHANGED notCap

\* VideoCapture.start: the read comes back
CapRead(outcome) ==
    /\ cpc = "read"
    /\ CASE outcome = "ok" ->
              /\ latest_no' = Min2(latest_no + 1, MaxReads)
              /\ cpc' = "yield"
         [] outcome = "fail" ->
              /\ cpc' = AfterFailedRead
              /\ UNCHANGED latest_no
         [] OTHER ->
              /\ cpc' = "error_sleep"
              /\ UNCHANGED latest_no
    /\ UNCHANGED <<cap_running, cap_open, eye_running, stop_called, added_no>>
    /\ UNCHANGED bufVars
    /\ UNCHANGED notCap

\* VideoCapture._reconnect, once its sleep is over: release, reopen
CapReconnect ==
    /\ cpc = "reconnect"
    /\ cap_open' = "open"
    /\ cpc' = "check"
    /\ UNCHANGED <<cap_running, latest_no, eye_running, stop_called, added_no>>
    /\ UNCHANGED bufVars
    /\ UNCHANGED notCap

\* VideoCapture.start: asyncio.sleep(0) after a frame, asyncio.sleep(1) after
\* an exception
CapYield ==
    /\ cpc \in {"yield", "error_sleep"}
    /\ cpc' = "check"
    /\ UNCHANGED <<cap_running, cap_open, latest_no, eye_running, stop_called, added_no>>
    /\ UNCHANGED bufVars
    /\ UNCHANGED notCap

\* EyeCore._capture_loop after video_capture.start() returned: `while
\* self._running`, get_frame, frame_buffer.add. The model follows the first
\* MaxFrames adds.
LoopStep ==
    /\ cpc = "loop_check"
    /\ IF ~eye_running
       THEN /\ cpc' = "done"
            /\ UNCHANGED added_no
            /\ UNCHANGED bufVars
       ELSE /\ cpc' = "loop_yield"
            /\ IF latest_no = 0
               THEN /\ UNCHANGED added_no
                    /\ UNCHANGED bufVars
               ELSE /\ AddFrame
                    /\ added_no' = latest_no
    /\ UNCHANGED <<cap_running, cap_open, latest_no, eye_running, stop_called>>
    /\ UNCHANGED notCap

\* EyeCore._capture_loop: the broadcast and asyncio.sleep(0)
LoopYield ==
    /\ cpc = "loop_yield"
    /\ cpc' = "loop_check"
    /\ UNCHANGED <<cap_running, cap_open, latest_no, eye_running, stop_called, added_no>>
    /\ UNCHANGED bufVars
    /\ UNCHANGED notCap

NextCapture ==
    \/ EyeStart
    \/ EyeStop
    \/ EyeClose
    \/ CapCheck
    \/ \E outcome \in ReadOutcomes : CapRead(outcome)
    \/ CapReconnect
    \/ CapYield
    \/ LoopStep
    \/ LoopYield

\* The event loop runs every task that is ready, sleeps end, and a read
\* handed to the executor comes back; nothing obliges anyone to call stop.
CaptureFairness ==
    /\ WF_vars(CapCheck)
    /\ WF_vars(\E outcome \in ReadOutcomes : CapRead(outcome))
    /\ WF_vars(CapReconnect)
    /\ WF_vars(CapYield)
    /\ WF_vars(LoopStep)
    /\ WF_vars(LoopYield)

----------------------------------------------------------------------------

(* EventState.max_counts, frame by frame *)

\* the configuration SpecCounts runs PerceptionMemory with: the database
\* attached, the smallest loss tolerance and event duration
InitCounts ==
    /\ now = 0
    /\ loss_tolerance = 1
    /\ max_event_duration = 1
    /\ db_attached = TRUE
    /\ current_event = FreshEvent
    /\ rows = <<>>
    /\ last_rowid = NoId
    /\ closed_id = NoId
    /\ opened = 0
    /\ result = NoResult
    /\ empties = 0
    /\ submitted = 0
    /\ fed = 0
    /\ seen_max = NoCounts

CountsIdle == seen_max = NoCounts

\* the running maximum of the frames fed since the open event was opened,
\* after a frame with class_counts took the memory to m
SeenAfter(m, class_counts) ==
    IF ~m.ev.is_active THEN NoCounts
    ELSE IF m.opened > opened THEN class_counts
    ELSE [c \in Classes |-> Max2(seen_max[c], class_counts[c])]

\* one pass of _analysis_loop on a frame, no scene analysis asked for
CountCycle(class_counts, ok) ==
    /\ LET p == perceive(Mem, class_counts, FALSE, "none", ok)
           r == update_event_state(p.m, class_counts, ClockStamp, p.tags, p.id, ok, ok)
       IN  /\ SetMem(r.m)
           /\ seen_max' = SeenAfter(r.m, class_counts)
    /\ UNCHANGED <<result, empties, submitted, fed>>
    /\ UNCHANGED notCnt

\* await memory.update_event(class_counts, ...) called directly
CountUpdateEvent(class_counts, ok) ==
    /\ has_detections(class_counts)
    /\ LET r == update_event(Mem, class_counts, visual_risks(class_counts) # {},
                             visual_tags(class_counts), ok) IN
       /\ SetMem(r.m)
       /\ seen_max' = SeenAfter(r.m, class_counts)
    /\ UNCHANGED <<result, empties, submitted, fed>>
    /\ UNCHANGED notCnt

\* one pass of _analysis_loop on a frame, no scene analysis asked for, counted:
\* `empties` is the number of empty passes since the last pass with detections
RunCycle(class_counts, ok) ==
    /\ has_detections(class_counts) \/ empties < MaxEmpty
    /\ LET p == perceive(Mem, class_counts, FALSE, "none", ok)
           r == update_event_state(p.m, class_counts, ClockStamp, p.tags, p.id, ok, ok)
       IN  SetMem(r.m)
    /\ empties' = IF has_detections(class_counts) THEN 0 ELSE empties + 1
    /\ UNCHANGED <<result, submitted, fed>>
    /\ UNCHANGED notMem

NextEmptyRun ==
    \/ Tick
    \/ \E f \in Frames, ok \in BOOLEAN : RunCycle(f, ok)

NextCounts ==
    \/ Tick
    \/ \E f \in Frames, ok \in BOOLEAN : CountCycle(f, ok)
    \/ \E f \in Frames, ok \in BOOLEAN : CountUpdateEvent(f, ok)


----------------------------------------------------------------------------
(* PerceptionMemory shared by two coroutines: EyeCore._analysis_loop        *)
(* (perceive, then store) and DismissAlertsSkill._dismiss_current. Each     *)
(* action is the code a coroutine runs between two awaits of the database.  *)

\* the frames this specification feeds: nothing, or one person
LaneFrames == {f \in Frames : f["knife"] = 0 /\ f["person"] <= 1}

\* a coroutine that is not inside PerceptionMemory
LaneIdle == [at |-> "idle", f |-> NoCounts, id |-> NoId, stamp |-> NoStamp]

InitLanes ==
    /\ now = 0
    /\ loss_tolerance \in 1..MaxTolerance
    /\ max_event_duration = 1
    /\ db_attached = TRUE
    /\ current_event = FreshEvent
    /\ rows = <<>>
    /\ last_rowid = NoId
    /\ closed_id = NoId
    /\ opened = 0
    /\ result = NoResult
    /\ empties = 0
    /\ submitted = 0
    /\ fed = 0
    /\ alane = LaneIdle
    /\ dlane = LaneIdle
    /\ close_calls = [k \in 1..MaxEvents |-> 0]
    /\ writers = {}

LanesIdle ==
    /\ alane = LaneIdle
    /\ dlane = LaneIdle
    /\ close_calls = [k \in 1..MaxEvents |-> 0]
    /\ writers = {}

\* _start_event up to its await: the EventState is filled in and made active
StartBegin(ev, timestamp, class_counts, is_visual_abnormal, alert_tags) ==
    start_event([ev |-> ev, rows |-> <<>>, rowid |-> NoId, closed |-> NoId, opened |-> 0],
                timestamp, class_counts, is_visual_abnormal, alert_tags, TRUE).ev

\* _close_event from its await on: the UPDATE of the id read before the
\* await, then current_event.reset() on whatever the EventState holds now
CloseFinish(id, ok) ==
    /\ rows' = DbCloseEvent(rows, id, ok)
    /\ closed_id' = id
    /\ current_event' = EventReset(current_event)

\* db_manager.close_event is called for the event opened last
CloseIssued == close_calls' = [close_calls EXCEPT ![opened] = @ + 1]

\* _analysis_loop -> perceive: update_event on a frame with detections,
\* try_close_event on an empty one
LanePerceive(f) ==
    /\ alane.at = "idle"
    /\ IF has_detections(f)
       THEN IF ~current_event.is_active
            THEN /\ opened < MaxEvents
                 /\ current_event' = StartBegin(current_event, DateStamp, f,
                                                visual_risks(f) # {}, visual_tags(f))
                 /\ opened' = opened + 1
                 /\ alane' = [at |-> "perceive_start", f |-> f, id |-> TimeId, stamp |-> DateStamp]
                 /\ writers' = writers \cup {"analysis"}
                 /\ UNCHANGED close_calls
            ELSE /\ current_event' = update_event(Mem, f, visual_risks(f) # {},
                                                  visual_tags(f), TRUE).m.ev
                 /\ alane' = [LaneIdle EXCEPT !.at = "store", !.f = f]
                 /\ writers' = writers \cup {"analysis"}
                 /\ UNCHANGED <<opened, close_calls>>
       ELSE IF ~current_event.is_active
            THEN /\ alane' = [LaneIdle EXCEPT !.at = "store", !.f = f]
                 /\ UNCHANGED <<current_event, opened, close_calls, writers>>
            ELSE /\ current_event.empty_frame_counter < MaxEmpty
                 /\ current_event' = [current_event EXCEPT !.empty_frame_counter = @ + 1]
                 /\ writers' = writers \cup {"analysis"}
                 /\ UNCHANGED opened
                 /\ IF current_event.empty_frame_counter + 1 >= loss_tolerance
                    THEN /\ alane' = [at |-> "perceive_close", f |-> f,
                                      id |-> current_event.event_id, stamp |-> NoStamp]
                         /\ CloseIssued
                    ELSE /\ alane' = [LaneIdle EXCEPT !.at = "store", !.f = f]
                         /\ UNCHANGED close_calls
    /\ UNCHANGED <<now, loss_tolerance, max_event_duration, db_attached, rows, last_rowid,
                   closed_id, result, empties, submitted, fed, dlane>>
    /\ UNCHANGED notLane

\* db_manager.start_event returns to the analysis lane
LaneStartDone(ok) ==
    /\ alane.at \in {"perceive_start", "store_start"}
    /\ rows' = DbStartEvent(rows, alane.f, visual_risks(alane.f) # {}, visual_tags(alane.f), ok)
    /\ last_rowid' = IF ok THEN Len(rows) + 1 ELSE NoId
    /\ alane' = IF alane.at = "perceive_start"
                THEN [LaneIdle EXCEPT !.at = "store", !.f = alane.f]
                ELSE LaneIdle
    /\ UNCHANGED <<now, loss_tolerance, max_event_duration, db_attached, current_event,
                   closed_id, opened, result, empties, submitted, fed, dlane,
                   close_calls, writers>>
    /\ UNCHANGED notLane

\* db_manager.close_event returns to the analysis lane; after the close of a
\* rollover, _start_event runs up to its own await
LaneCloseDone(ok) ==
    /\ alane.at \in {"perceive_close", "store_close", "rollover_close"}
    /\ rows' = DbCloseEvent(rows, alane.id, ok)
    /\ closed_id' = alane.id
    /\ writers' = writers \cup {"analysis"}
    /\ IF alane.at = "rollover_close"
       THEN /\ opened < MaxEvents
            /\ current_event' = StartBegin(EventReset(current_event), ClockStamp, alane.f,
                                           visual_risks(alane.f) # {}, visual_tags(alane.f))
            /\ opened' = opened + 1
            /\ alane' = [at |-> "store_start", f |-> alane.f, id |-> TimeId, stamp |-> ClockStamp]
       ELSE /\ current_event' = EventReset(current_event)
            /\ alane' = IF alane.at = "perceive_close"
                        THEN [LaneIdle EXCEPT !.at = "store", !.f = alane.f]
                        ELSE LaneIdle
            /\ UNCHANGED opened
    /\ UNCHANGED <<now, loss_tolerance, max_event_duration, db_attached, last_rowid,
                   result, empties, submitted, fed, dlane, close_calls>>
    /\ UNCHANGED notLane

\* _analysis_loop -> store -> _update_event_state, up to its first await
LaneStore ==
    /\ alane.at = "store"
    /\ LET f == alane.f
           ev0 == [current_event EXCEPT !.empty_frame_counter = 0]
           ev1 == [current_event EXCEPT !.empty_frame_counter = @ + 1]
       IN
       IF has_detections(f)
       THEN /\ writers' = writers \cup {"analysis"}
            /\ IF ev0.is_active /\ ~FloatParses(ev0.start_time)
               THEN /\ current_event' = ev0
                    /\ alane' = LaneIdle
                    /\ UNCHANGED <<opened, close_calls>>
               ELSE IF ev0.is_active /\ now - ev0.start_time.t > max_event_duration
               THEN /\ current_event' = ev0
                    /\ alane' = [at |-> "rollover_close", f |-> f, id |-> ev0.event_id,
                                 stamp |-> NoStamp]
                    /\ CloseIssued
                    /\ UNCHANGED opened
               ELSE IF ~ev0.is_active
               THEN /\ opened < MaxEvents
                    /\ current_event' = StartBegin(ev0, ClockStamp, f,
                                                   visual_risks(f) # {}, visual_tags(f))
                    /\ opened' = opened + 1
                    /\ alane' = [at |-> "store_start", f |-> f, id |-> TimeId,
                                 stamp |-> ClockStamp]
                    /\ UNCHANGED close_calls
               ELSE /\ current_event' = [ev0 EXCEPT !.max_counts = update_counts(@, f)]
                    /\ alane' = LaneIdle
                    /\ UNCHANGED <<opened, close_calls>>
       ELSE /\ ev1.empty_frame_counter <= MaxEmpty
            /\ current_event' = ev1
            /\ writers' = writers \cup {"analysis"}
            /\ UNCHANGED opened
            /\ IF ev1.is_active /\ ev1.empty_frame_counter >= loss_tolerance
               THEN /\ alane' = [at |-> "store_close", f |-> f, id |-> ev1.event_id,
                                 stamp |-> NoStamp]
                    /\ CloseIssued
               ELSE /\ alane' = LaneIdle
                    /\ UNCHANGED close_calls
    /\ UNCHANGED <<now, loss_tolerance, max_event_duration, db_attached, rows, last_rowid,
                   closed_id, result, empties, submitted, fed, dlane>>
    /\ UNCHANGED notLane

\* DismissAlertsSkill._dismiss_current -> try_close_event, up to the await
\* of _close_event; a call that finds no active event returns at once
DismissCall ==
    /\ dlane.at = "idle"
    /\ current_event.is_active
    /\ current_event.empty_frame_counter < MaxEmpty
    /\ current_event' = [current_event EXCEPT !.empty_frame_counter = @ + 1]
    /\ writers' = writers \cup {"dismiss"}
    /\ IF current_event.empty_frame_counter + 1 >= loss_tolerance
       THEN /\ dlane' = [LaneIdle EXCEPT !.at = "dismiss_close", !.id = current_event.event_id]
            /\ CloseIssued
       ELSE UNCHANGED <<dlane, close_calls>>
    /\ UNCHANGED <<now, loss_tolerance, max_event_duration, db_attached, rows, last_rowid,
                   closed_id, opened, result, empties, submitted, fed, alane>>
    /\ UNCHANGED notLane

\* db_manager.close_event returns to the dismiss command
DismissCloseDone(ok) ==
    /\ dlane.at = "dismiss_close"
    /\ CloseFinish(dlane.id, ok)
    /\ dlane' = LaneIdle
    /\ writers' = writers \cup {"dismiss"}
    /\ UNCHANGED <<now, loss_tolerance, max_event_duration, db_attached, last_rowid,
                   opened, result, empties, submitted, fed, alane, close_calls>>
    /\ UNCHANGED notLane

NextLanes ==
    \/ Tick
    \/ \E f \in LaneFrames : LanePerceive(f)
    \/ \E ok \in BOOLEAN : LaneStartDone(ok)
    \/ \E ok \in BOOLEAN : LaneCloseDone(ok)
    \/ LaneStore
    \/ DismissCall
    \/ \E ok \in BOOLEAN : DismissCloseDone(ok)


----------------------------------------------------------------------------
(* vlm_client._send_request: one POST to the scene model, with retries      *)

\* max_retries and base_delay (seconds) of _send_request
max_retries == 3
base_delay == 2

\* the status codes the model answers with
StatusCodes == {200, 302, 400, 404, 499, 500, 503}
\* what `await client.post(...)` can do: a response with a status code,
\* whose body has choices[0].message.content or not, or an exception
\* (connection error, timeout)
PostOutcomes ==
    [kind : {"response"}, code : StatusCodes, body_ok : BOOLEAN]
        \cup {[kind |-> "exception", code |-> 0, body_ok |-> FALSE]}

\* asyncio.sleep(base_delay * (2 ** attempt))
Backoff_Constant(attempt) == base_delay
Backoff(attempt) == base_delay * (2 ^ attempt)

\* what _send_request returns
NoReturn == [kind |-> "none", code |-> 0]
Content == [kind |-> "content", code |-> 200]
ApiError(code) == [kind |-> "error", code |-> code]
\* '{"error": "Request timed out"}'
RequestTimedOut == [kind |-> "error", code |-> 0]

InitSend ==
    /\ spc = "post"
    /\ sattempt = 0
    /\ sret = NoReturn
    /\ soutcomes = <<>>
    /\ sdelays = <<>>

\* a component that makes no request
SendIdle ==
    /\ spc = "done"
    /\ sattempt = 0
    /\ sret = NoReturn
    /\ soutcomes = <<>>
    /\ sdelays = <<>>

\* one pass of the loop body, up to the sleep
SendPost(o) ==
    /\ spc = "post"
    /\ soutcomes' = Append(soutcomes, o)
    /\ IF o.kind = "response" /\ o.code = 200 /\ o.body_ok
       THEN /\ sret' = Content
            /\ spc' = "done"
            /\ UNCHANGED sattempt
       ELSE IF o.kind = "response" /\ 400 <= o.code /\ o.code < 500
       THEN /\ sret' = ApiError(o.code)
            /\ spc' = "done"
            /\ UNCHANGED sattempt
       ELSE IF sattempt < max_retries - 1
       THEN /\ spc' = "sleep"
            /\ UNCHANGED <<sattempt, sret>>
       ELSE /\ sret' = RequestTimedOut
            /\ spc' = "done"
            /\ UNCHANGED sattempt
    /\ UNCHANGED sdelays
    /\ UNCHANGED notSend

\* the sleep is over: the next pass of the loop
SendWake ==
    /\ spc = "sleep"
    /\ sdelays' = Append(sdelays, Backoff(sattempt))
    /\ sattempt' = sattempt + 1
    /\ spc' = "post"
    /\ UNCHANGED <<sret, soutcomes>>
    /\ UNCHANGED notSend

NextSend ==
    \/ \E o \in PostOutcomes : SendPost(o)
    \/ SendWake


----------------------------------------------------------------------------
(* EyeCore.start / EyeCore.stop: the three tasks start creates, and what   *)
(* each does once stop has cleared EyeCore._running. The capture task is   *)
(* the one of the capture component, taken here from the moment start      *)
(* creates it.                                                              *)

\* EyeCore.start up to its gather: the flag is set and the three tasks are
\* created; none of them has run yet
EyeStartTasks ==
    /\ cpc = "idle"
    /\ eye_running' = TRUE
    /\ cpc' = "created"
    /\ apc' = "loop_check"
    /\ rpc' = "loop_check"
    /\ UNCHANGED <<cap_running, cap_open, latest_no, stop_called, added_no, analysing>>
    /\ UNCHANGED bufVars
    /\ UNCHANGED notCap2

\* the capture task's first step: _capture_loop awaits video_capture.start(),
\* which sets VideoCapture._running and opens the source
CaptureTaskBegins ==
    /\ cpc = "created"
    /\ cap_running' = TRUE
    /\ cap_open' = "open"
    /\ cpc' = "check"
    /\ UNCHANGED <<latest_no, eye_running, stop_called, added_no>>
    /\ UNCHANGED stopVars
    /\ UNCHANGED bufVars
    /\ UNCHANGED notCap2

\* _analysis_loop: `while self._running`, then wait_for_new_data
AnalysisCheck ==
    /\ apc = "loop_check"
    /\ apc' = IF eye_running THEN "wait" ELSE "done"
    /\ UNCHANGED <<rpc, analysing>>
    /\ UNCHANGED notStop

\* wait_for_new_data returns, on the signal or after its 1 s timeout, and
\* get_frames returns: no frames (continue), or frames and perceive begins,
\* with or without a scene analysis
AnalysisWaitDone(has_frames, should_analyze) ==
    /\ apc = "wait"
    /\ apc' = IF has_frames THEN "perceive" ELSE "loop_check"
    /\ analysing' = (has_frames /\ should_analyze)
    /\ UNCHANGED rpc
    /\ UNCHANGED notStop

\* perceive and store return: the detector answered, and a scene analysis in
\* flight has completed or SceneAnalyzer.analyze has timed out
AnalysisPerceiveDone ==
    /\ apc = "perceive"
    /\ apc' = "sleep"
    /\ analysing' = FALSE
    /\ UNCHANGED rpc
    /\ UNCHANGED notStop

\* asyncio.sleep(0.01) at the end of a pass
AnalysisSleepDone ==
    /\ apc = "sleep"
    /\ apc' = "loop_check"
    /\ UNCHANGED <<rpc, analysing>>
    /\ UNCHANGED notStop

\* _recording_loop: `while self._running`, then one pass up to its sleep
RecordingCheck ==
    /\ rpc = "loop_check"
    /\ rpc' = IF eye_running THEN "sleep" ELSE "done"
    /\ UNCHANGED <<apc, analysing>>
    /\ UNCHANGED notStop

\* asyncio.sleep(0.1) at the end of a pass
RecordingSleepDone ==
    /\ rpc = "sleep"
    /\ rpc' = "loop_check"
    /\ UNCHANGED <<apc, analysing>>
    /\ UNCHANGED notStop

\* the gather of EyeCore.start has all three tasks done
StartReturned == cpc = "done" /\ apc = "done" /\ rpc = "done"

\* EyeCore.stop has run
EyeStopped == stop_called /\ ~eye_running

InitStop ==
    /\ InitCapture
    /\ apc = "idle"
    /\ rpc = "idle"
    /\ analysing = FALSE

StopIdle ==
    /\ apc = "idle"
    /\ rpc = "idle"
    /\ analysing = FALSE

NextStop ==
    \/ EyeStartTasks
    \/ CaptureTaskBegins
    \/ EyeStop
    \/ EyeClose
    \/ CapCheck
    \/ \E outcome \in ReadOutcomes : CapRead(outcome)
    \/ CapReconnect
    \/ CapYield
    \/ LoopStep
    \/ LoopYield
    \/ AnalysisCheck
    \/ \E has_frames \in BOOLEAN, should_analyze \in BOOLEAN :
          AnalysisWaitDone(has_frames, should_analyze)
    \/ AnalysisPerceiveDone
    \/ AnalysisSleepDone
    \/ RecordingCheck
    \/ RecordingSleepDone

\* The event loop runs every task that is ready; every sleep, every wait
\* with a timeout and every network call ends. Nothing obliges anyone to
\* call start or stop.
StopFairness ==
    /\ CaptureFairness
    /\ WF_vars(CaptureTaskBegins)
    /\ WF_vars(AnalysisCheck)
    /\ WF_vars(\E has_frames \in BOOLEAN, should_analyze \in BOOLEAN :
                  AnalysisWaitDone(has_frames, should_analyze))
    /\ WF_vars(AnalysisPerceiveDone)
    /\ WF_vars(AnalysisSleepDone)
    /\ WF_vars(RecordingCheck)
    /\ WF_vars(RecordingSleepDone)


----------------------------------------------------------------------------
(* ObjectDetector over BaseYoloClient.detect_async, crop by crop: the rate  *)
(* limiter of detect_async, the vocabulary each inference starts under,     *)
(* and the cancellation of the task that awaits detect_stage2.              *)

\* 1.0 / YoloConfig.DETECT_FPS, and the clock, in tenths of a second
DetectFps == 5
CasInterval == 10 \div DetectFps
\* last instant the clock of this specification reaches
MaxCasClock == 5

\* the task lists handed to detect_stage2: per task, whether its clamped box
\* has positive area; a task's track identity is its position in the list
TaskLists == UNION {[1..n -> BOOLEAN] : n \in 0..MaxTasks}
ValidTasks(tasks) == {i \in 1..Len(tasks) : tasks[i]}

NoStage2Call == [at |-> "idle", valid |-> {}, cur |-> 0, ran |-> {}, features |-> <<>>]
NoStage2Return == [kind |-> "none", valid |-> {}, ran |-> {}, features |-> <<>>]
NoInference == [stage |-> 0, vocab |-> NoClient, targets |-> NoClient]

\* detect_async: `if now - self.last_send_time < self.interval: return [], frame`
RateLimited == cas_now - last_send_time < CasInterval

\* k features of one crop, each tagged with the task's track identity
CropFeatures(track_id, k) == [j \in 1..k |-> track_id]

MinOfSet(S) == CHOOSE x \in S : \A y \in S : x <= y

InitCascade ==
    /\ InitDetector
    /\ s2call = NoStage2Call
    /\ s2ret = NoStage2Return
    /\ s1call = [l \in Lanes |-> "idle"]
    /\ last_send_time = 0
    /\ cas_now = CasInterval
    /\ last_infer = NoInference

CascadeIdle ==
    /\ s2call = NoStage2Call
    /\ s2ret = NoStage2Return
    /\ s1call = [l \in Lanes |-> "idle"]
    /\ last_send_time = 0
    /\ cas_now = CasInterval
    /\ last_infer = NoInference

\* detect_stage2 from the crop after `cur` on, with `features` gathered so
\* far: detect_async either starts the next crop's inference and suspends,
\* or, inside the limiter's interval, returns [] for it and for every crop
\* after it without suspending; after the last crop the vocabulary is
\* restored and the call returns
Stage2Continue(valid, cur, ran, features, vocab) ==
    LET remaining == {i \in valid : i > cur} IN
    IF remaining = {} \/ RateLimited
    THEN /\ s2call' = NoStage2Call
         /\ s2ret' = [kind |-> "features", valid |-> valid, ran |-> ran,
                      features |-> features]
         /\ current_targets' = update_prompt(stage1_targets)
         /\ UNCHANGED <<last_send_time, last_infer>>
    ELSE LET next == MinOfSet(remaining) IN
         /\ s2call' = [at |-> "infer", valid |-> valid, cur |-> next,
                       ran |-> ran \cup {next}, features |-> features]
         /\ s2ret' = NoStage2Return
         /\ current_targets' = vocab
         /\ last_send_time' = cas_now
         /\ last_infer' = [stage |-> 2, vocab |-> vocab, targets |-> stage2_targets]

\* detect_stage2 up to its first suspension, or its return
CasStage2Call(tasks) ==
    /\ s2call.at = "idle"
    /\ s1call["analysis"] = "idle"
    /\ initialized' = TRUE
    /\ IF ValidTasks(tasks) = {}
       THEN /\ current_targets' = ensure_initialized
            /\ s2ret' = [NoStage2Return EXCEPT
                            !.kind = IF tasks = <<>> THEN "no_tasks" ELSE "no_crops"]
            /\ UNCHANGED <<s2call, last_send_time, last_infer>>
       ELSE Stage2Continue(ValidTasks(tasks), 0, {}, <<>>, update_prompt(stage2_targets))
    /\ UNCHANGED <<stage1_targets, stage2_targets, dpc, dret, s1call, cas_now>>
    /\ UNCHANGED notCas

\* the inference of crop `cur` comes back with k sub-detections (none when
\* detect_async swallowed an error), and the loop goes on
CasStage2Done(k) ==
    /\ s2call.at = "infer"
    /\ Stage2Continue(s2call.valid, s2call.cur, s2call.ran,
                      s2call.features \o CropFeatures(s2call.cur, k), current_targets)
    /\ UNCHANGED <<initialized, stage1_targets, stage2_targets, dpc, dret, s1call, cas_now>>
    /\ UNCHANGED notCas

\* the task awaiting detect_stage2 is cancelled while a crop is inferred:
\* CancelledError is not an Exception, the handler does not run
CasStage2Cancel ==
    /\ s2call.at = "infer"
    /\ s2call' = NoStage2Call
    /\ s2ret' = [NoStage2Return EXCEPT !.kind = "cancelled"]
    /\ UNCHANGED <<initialized, current_targets, stage1_targets, stage2_targets, dpc, dret,
                   s1call, last_send_time, cas_now, last_infer>>
    /\ UNCHANGED notCas

\* detect_stage1 up to the suspension of detect_async, or its return when
\* the limiter answers at once
CasStage1Call(l) ==
    /\ s1call[l] = "idle"
    /\ l = "analysis" => s2call.at = "idle"
    /\ initialized' = TRUE
    /\ current_targets' = update_prompt(stage1_targets)
    /\ IF RateLimited
       THEN UNCHANGED <<s1call, last_send_time, last_infer>>
       ELSE /\ s1call' = [s1call EXCEPT ![l] = "infer"]
            /\ last_send_time' = cas_now
            /\ last_infer' = [stage |-> 1, vocab |-> update_prompt(stage1_targets),
                              targets |-> stage1_targets]
    /\ UNCHANGED <<stage1_targets, stage2_targets, dpc, dret, s2call, s2ret, cas_now>>
    /\ UNCHANGED notCas

\* the Stage-1 inference comes back and detect_stage1 returns
CasStage1Return(l) ==
    /\ s1call[l] = "infer"
    /\ s1call' = [s1call EXCEPT ![l] = "idle"]
    /\ UNCHANGED <<initialized, current_targets, stage1_targets, stage2_targets, dpc, dret,
                   s2call, s2ret, last_send_time, cas_now, last_infer>>
    /\ UNCHANGED notCas

\* update_stage1_targets, a synchronous command
CasUpdateStage1Targets(targets) ==
    /\ stage1_targets' = targets
    /\ current_targets' = IF initialized THEN update_prompt(targets) ELSE current_targets
    /\ UNCHANGED <<initialized, stage2_targets, dpc, dret, s2call, s2ret, s1call,
                   last_send_time, cas_now, last_infer>>
    /\ UNCHANGED notCas

\* a tenth of a second passes
CasTick ==
    /\ cas_now < MaxCasClock
    /\ cas_now' = cas_now + 1
    /\ UNCHANGED <<initialized, current_targets, stage1_targets, stage2_targets, dpc, dret,
                   s2call, s2ret, s1call, last_send_time, last_infer>>
    /\ UNCHANGED notCas

NextCascade ==
    \/ \E tasks \in TaskLists : CasStage2Call(tasks)
    \/ \E k \in 0..MaxSub : CasStage2Done(k)
    \/ CasStage2Cancel
    \/ \E l \in Lanes : CasStage1Call(l)
    \/ \E l \in Lanes : CasStage1Return(l)
    \/ \E t \in TargetLists : CasUpdateStage1Targets(t)
    \/ CasTick


----------------------------------------------------------------------------
(* StateFilter over frames of several detections, with reset *)

\* the 300-pixel box, the same box moved right by 3 pixels (which it matches)
\* and by 45 (which matches neither); frames of at most two detections
TrackerDets ==
    [class : Classes, box : {<<0, 0, 300, 300>>, <<3, 0, 303, 300>>, <<45, 0, 345, 300>>}]
TrackerFrames ==
    {<<>>} \cup {<<d>> : d \in TrackerDets} \cup {<<d, e>> : d, e \in TrackerDets}

\* the locals of check_refinement_needs before its loop; an entry of
\* new_tracked_list is either the prev_obj dict at index `prev` of
\* self.tracked_objects (the same object, not a copy) or a new dict
LoopStart ==
    [tracked |-> tracked_objects, ids |-> next_id, new_tracked_list |-> <<>>,
     refine_tasks |-> <<>>, vlm_candidates |-> <<>>, track_ids |-> <<>>]

\* one pass of `for det in current_detections`: prev_obj is updated in place
LoopPass(st, det) ==
    LET r == TrackDetection(st.tracked, det)
        match_found == Matches(st.tracked, det) # {}
        track_id == IF match_found THEN r.obj.id ELSE st.ids + 1
        task == [detection |-> det, track_id |-> track_id]
    IN  [tracked |-> IF match_found
                     THEN [st.tracked EXCEPT ![FirstMatch(st.tracked, det)] = r.obj]
                     ELSE st.tracked,
         ids |-> IF match_found THEN st.ids ELSE st.ids + 1,
         new_tracked_list |->
             Append(st.new_tracked_list,
                    [prev |-> IF match_found THEN FirstMatch(st.tracked, det) ELSE 0,
                     obj |-> [r.obj EXCEPT !.id = track_id]]),
         refine_tasks |-> IF r.refine THEN Append(st.refine_tasks, task)
                          ELSE st.refine_tasks,
         vlm_candidates |-> IF r.vlm THEN Append(st.vlm_candidates, det)
                            ELSE st.vlm_candidates,
         track_ids |-> Append(st.track_ids, track_id)]

RECURSIVE LoopOver(_, _)
LoopOver(st, dets) ==
    IF dets = <<>> THEN st
    ELSE CHOOSE r \in {LoopOver(x, Tail(dets)) : x \in {LoopPass(st, Head(dets))}} : TRUE

\* `self.tracked_objects = new_tracked_list`
NewTrackedList_KeepAll(st) ==
    st.tracked \o [k \in 1..Len(st.new_tracked_list) |-> st.new_tracked_list[k].obj]
NewTrackedList(st) ==
    [k \in 1..Len(st.new_tracked_list) |->
        IF st.new_tracked_list[k].prev = 0 THEN st.new_tracked_list[k].obj
        ELSE st.tracked[st.new_tracked_list[k].prev]]

NoTrackerReturn ==
    [seq |-> 0, frame |-> <<>>, refine_tasks |-> <<>>, vlm_candidates |-> <<>>,
     track_ids |-> <<>>, created |-> {}]

InitTracker ==
    /\ issued = {}
    /\ tret = NoTrackerReturn
TrackerIdle == InitTracker

\* StateFilter.check_refinement_needs(current_detections), any frame
TrackerCheck(current_detections) ==
    /\ IF current_detections = <<>>
       THEN /\ tracked_objects' = <<>>
            /\ next_id' = next_id
            /\ issued' = issued
            /\ tret' = [NoTrackerReturn EXCEPT !.seq = 1 - tret.seq]
       ELSE \E st \in {LoopOver(LoopStart, current_detections)} :
            /\ st.ids <= MaxIds
            /\ tracked_objects' = NewTrackedList(st)
            /\ next_id' = st.ids
            /\ issued' = issued \cup ((next_id + 1)..st.ids)
            /\ tret' = [seq |-> 1 - tret.seq, frame |-> current_detections,
                        refine_tasks |-> st.refine_tasks,
                        vlm_candidates |-> st.vlm_candidates,
                        track_ids |-> st.track_ids,
                        created |-> (next_id + 1)..st.ids]
    /\ UNCHANGED <<current_risk_level, recheck_interval, high_priority_classes, fclock,
                   policy, fret>>
    /\ UNCHANGED notTrk

\* StateFilter.reset()
FilterReset ==
    /\ tracked_objects' = <<>>
    /\ next_id' = 0
    /\ UNCHANGED <<current_risk_level, recheck_interval, high_priority_classes, fclock,
                   policy, fret>>
    /\ UNCHANGED trkVars
    /\ UNCHANGED notTrk

\* the clock stands still here: neither the identities nor the membership of
\* the tracked list depend on it
NextTracker ==
    \/ FilterReset
    \/ \E call \in PolicyCalls : UpdatePolicy(call[1], call[2])
    \/ \E f \in TrackerFrames : TrackerCheck(f)


----------------------------------------------------------------------------
(* AsyncDBManager's connection pool: initialize() and the operations that   *)
(* run inside `async with self._get_connection()`                           *)

\* the largest DBConfig.EYE_POOL_SIZE, the coroutines that run operations and
\* the connections a run may open
MaxPoolSize == 2
MaxPoolOps == 2
MaxConns == 5
PoolOps == 1..MaxPoolOps
NoConn == 0

\* the connections the pool list holds
Pooled == {connection_pool[k] : k \in 1..Len(connection_pool)}

InitPool ==
    /\ max_connections \in 1..MaxPoolSize
    /\ connection_pool = <<>>
    /\ active_connections = 0
    /\ holding = [o \in PoolOps |-> NoConn]
    /\ open_conns = {}
    /\ made = 0
    /\ init_conns = {}
PoolIdle ==
    /\ max_connections = 1
    /\ connection_pool = <<>>
    /\ active_connections = 0
    /\ holding = [o \in PoolOps |-> NoConn]
    /\ open_conns = {}
    /\ made = 0
    /\ init_conns = {}

\* AsyncDBManager.initialize(): `successes` of the _max_connections
\* _create_connection calls return a connection; a call that finds the pool
\* non-empty returns at once, one that creates no connection raises
PoolInitialize(successes) ==
    /\ successes <= max_connections
    /\ made + successes <= MaxConns
    /\ IF connection_pool # <<>> \/ successes = 0
       THEN UNCHANGED <<connection_pool, active_connections, open_conns, made, init_conns>>
       ELSE /\ connection_pool' = [k \in 1..successes |-> made + k]
            /\ active_connections' = active_connections + successes
            /\ open_conns' = open_conns \cup ((made + 1)..(made + successes))
            /\ made' = made + successes
            /\ init_conns' = init_conns \cup ((made + 1)..(made + successes))
    /\ UNCHANGED <<max_connections, holding>>
    /\ UNCHANGED notPool

\* _get_connection up to its yield: pop from the pool, or create a pooled
\* connection while fewer than _max_connections are counted, or (pool used
\* up, or _create_connection returned None) open a temporary connection
PoolAcquire(o, create_ok) ==
    /\ holding[o] = NoConn
    /\ IF connection_pool # <<>>
       THEN /\ holding' = [holding EXCEPT ![o] = connection_pool[Len(connection_pool)]]
            /\ connection_pool' = SubSeq(connection_pool, 1, Len(connection_pool) - 1)
            /\ UNCHANGED <<active_connections, open_conns, made>>
       ELSE /\ made < MaxConns
            /\ holding' = [holding EXCEPT ![o] = made + 1]
            /\ made' = made + 1
            /\ open_conns' = open_conns \cup {made + 1}
            /\ active_connections' =
                   IF active_connections < max_connections /\ create_ok
                   THEN active_connections + 1 ELSE active_connections
            /\ UNCHANGED connection_pool
    /\ UNCHANGED <<max_connections, init_conns>>
    /\ UNCHANGED notPool

\* the test of the finally clause of _get_connection that lets a connection
\* go back to the pool
MayReturn(conn) == conn \notin Pooled /\ active_connections < max_connections

\* the finally clause of _get_connection, after the operation completed or
\* raised: the connection goes back to the pool or is closed
PoolRelease(o) ==
    /\ holding[o] # NoConn
    /\ IF MayReturn(holding[o]) /\ Len(connection_pool) < max_connections
       THEN /\ connection_pool' = Append(connection_pool, holding[o])
            /\ UNCHANGED open_conns
       ELSE /\ open_conns' = IF holding[o] \notin Pooled
                             THEN open_conns \ {holding[o]} ELSE open_conns
            /\ UNCHANGED connection_pool
    /\ holding' = [holding EXCEPT ![o] = NoConn]
    /\ UNCHANGED <<max_connections, active_connections, made, init_conns>>
    /\ UNCHANGED notPool

NextPool ==
    \/ \E successes \in 0..MaxPoolSize : PoolInitialize(successes)
    \/ \E o \in PoolOps, create_ok \in BOOLEAN : PoolAcquire(o, create_ok)
    \/ \E o \in PoolOps : PoolRelease(o)

----------------------------------------------------------------------------

InitSpecDetector == InitDetector /\ NmsIdle /\ MemIdle /\ InitDb /\ InitFilter /\ AnalyzerIdle /\ BufferIdle /\ CaptureIdle /\ CountsIdle /\ LanesIdle /\ SendIdle /\ StopIdle /\ CascadeIdle /\ TrackerIdle /\ PoolIdle
InitSpecNms == InitNms /\ InitDetector /\ MemIdle /\ InitDb /\ InitFilter /\ AnalyzerIdle /\ BufferIdle /\ CaptureIdle /\ CountsIdle /\ LanesIdle /\ SendIdle /\ StopIdle /\ CascadeIdle /\ TrackerIdle /\ PoolIdle
InitSpecMemory == InitMemory /\ InitDetector /\ NmsIdle /\ InitDb /\ InitFilter /\ AnalyzerIdle /\ BufferIdle /\ CaptureIdle /\ CountsIdle /\ LanesIdle /\ SendIdle /\ StopIdle /\ CascadeIdle /\ TrackerIdle /\ PoolIdle
InitSpecEye == InitEye /\ InitDetector /\ NmsIdle /\ InitDb /\ InitFilter /\ AnalyzerIdle /\ BufferIdle /\ CaptureIdle /\ CountsIdle /\ LanesIdle /\ SendIdle /\ StopIdle /\ CascadeIdle /\ TrackerIdle /\ PoolIdle
InitSpecDb == InitDb /\ MemIdle /\ InitDetector /\ NmsIdle /\ InitFilter /\ AnalyzerIdle /\ BufferIdle /\ CaptureIdle /\ CountsIdle /\ LanesIdle /\ SendIdle /\ StopIdle /\ CascadeIdle /\ TrackerIdle /\ PoolIdle
InitSpecFilter == InitFilter /\ MemIdle /\ InitDetector /\ NmsIdle /\ InitDb /\ AnalyzerIdle /\ BufferIdle /\ CaptureIdle /\ CountsIdle /\ LanesIdle /\ SendIdle /\ StopIdle /\ CascadeIdle /\ TrackerIdle /\ PoolIdle

SpecDetector == InitSpecDetector /\ [][NextDetector]_vars

SpecNms == InitSpecNms /\ [][NextNms]_vars

SpecMemory == InitSpecMemory /\ [][NextMemory]_vars

SpecEye == InitSpecEye /\ [][NextEye]_vars

SpecEndToEnd == InitSpecEye /\ [][NextScenario]_vars

InitSpecCounts == InitCounts /\ InitDetector /\ NmsIdle /\ InitDb /\ InitFilter /\ AnalyzerIdle /\ BufferIdle /\ CaptureIdle /\ LanesIdle /\ SendIdle /\ StopIdle /\ CascadeIdle /\ TrackerIdle /\ PoolIdle

SpecCounts == InitSpecCounts /\ [][NextCounts]_vars

SpecDb == InitSpecDb /\ [][NextDb]_vars

SpecFilter == InitSpecFilter /\ [][NextFilter]_vars

InitSpecAnalyzer == InitAnalyzer /\ InitDetector /\ NmsIdle /\ MemIdle /\ InitDb /\ InitFilter /\ BufferIdle /\ CaptureIdle /\ CountsIdle /\ LanesIdle /\ SendIdle /\ StopIdle /\ CascadeIdle /\ TrackerIdle /\ PoolIdle
InitSpecParse == InitParse /\ InitDetector /\ NmsIdle /\ MemIdle /\ InitDb /\ InitFilter /\ BufferIdle /\ CaptureIdle /\ CountsIdle /\ LanesIdle /\ SendIdle /\ StopIdle /\ CascadeIdle /\ TrackerIdle /\ PoolIdle

SpecAnalyzer == InitSpecAnalyzer /\ [][NextAnalyzer]_vars

SpecParse == InitSpecParse /\ [][NextParse]_vars

InitSpecBuffer == InitBuffer /\ InitDetector /\ NmsIdle /\ MemIdle /\ InitDb /\ InitFilter /\ AnalyzerIdle /\ CaptureIdle /\ CountsIdle /\ LanesIdle /\ SendIdle /\ StopIdle /\ CascadeIdle /\ TrackerIdle /\ PoolIdle

SpecBuffer == InitSpecBuffer /\ [][NextBuffer]_vars

InitSpecCapture == InitCapture /\ BufferIdle /\ InitDetector /\ NmsIdle /\ MemIdle /\ InitDb /\ InitFilter /\ AnalyzerIdle /\ CountsIdle /\ LanesIdle /\ SendIdle /\ StopIdle /\ CascadeIdle /\ TrackerIdle /\ PoolIdle

SpecCapture == InitSpecCapture /\ [][NextCapture]_vars /\ CaptureFairness


InitSpecLanes == InitLanes /\ InitDetector /\ NmsIdle /\ InitDb /\ InitFilter /\ AnalyzerIdle /\ BufferIdle /\ CaptureIdle /\ CountsIdle /\ SendIdle /\ StopIdle /\ CascadeIdle /\ TrackerIdle /\ PoolIdle

SpecLanes == InitSpecLanes /\ [][NextLanes]_vars


InitSpecSend == InitSend /\ InitDetector /\ NmsIdle /\ MemIdle /\ InitDb /\ InitFilter /\ AnalyzerIdle /\ BufferIdle /\ CaptureIdle /\ CountsIdle /\ LanesIdle /\ StopIdle /\ CascadeIdle /\ TrackerIdle /\ PoolIdle

SpecSend == InitSpecSend /\ [][NextSend]_vars


InitSpecStop == InitStop /\ BufferIdle /\ InitDetector /\ NmsIdle /\ MemIdle /\ InitDb /\ InitFilter /\ AnalyzerIdle /\ CountsIdle /\ LanesIdle /\ SendIdle /\ CascadeIdle /\ TrackerIdle /\ PoolIdle

SpecStop == InitSpecStop /\ [][NextStop]_vars /\ StopFairness


InitSpecCascade == InitCascade /\ NmsIdle /\ MemIdle /\ InitDb /\ InitFilter /\ AnalyzerIdle /\ BufferIdle /\ CaptureIdle /\ CountsIdle /\ LanesIdle /\ SendIdle /\ StopIdle /\ TrackerIdle /\ PoolIdle

SpecCascade == InitSpecCascade /\ [][NextCascade]_vars


InitSpecNmsThreshold == InitDetector /\ InitNmsThreshold /\ MemIdle /\ InitDb /\ InitFilter /\ AnalyzerIdle /\ BufferIdle /\ CaptureIdle /\ CountsIdle /\ LanesIdle /\ SendIdle /\ StopIdle /\ CascadeIdle /\ TrackerIdle /\ PoolIdle
SpecNmsThreshold == InitSpecNmsThreshold /\ [][NextNms]_vars

SpecContextRead == InitSpecBuffer /\ [][NextContextRead]_vars

SpecEmptyRun == InitSpecEye /\ [][NextEmptyRun]_vars

InitSpecTracker == InitDetector /\ NmsIdle /\ MemIdle /\ InitDb /\ InitFilter /\ AnalyzerIdle /\ BufferIdle /\ CaptureIdle /\ CountsIdle /\ LanesIdle /\ SendIdle /\ StopIdle /\ CascadeIdle /\ InitTracker /\ PoolIdle
SpecTracker == InitSpecTracker /\ [][NextTracker]_vars


InitSpecPool == InitDetector /\ NmsIdle /\ MemIdle /\ InitDb /\ InitFilter /\ AnalyzerIdle /\ BufferIdle /\ CaptureIdle /\ CountsIdle /\ LanesIdle /\ SendIdle /\ StopIdle /\ CascadeIdle /\ TrackerIdle /\ InitPool
SpecPool == InitSpecPool /\ [][NextPool]_vars

C2_EventLifecycle ==
    /\ opened > 0 => (current_event.is_active <=> empties < loss_tolerance)
    /\ (current_event.is_active /\ closed_id # NoId)
          => current_event.event_id # closed_id

(* C3. Max-duration rollover: right after a frame with detections has been
   processed, the active event is no older than max_event_duration, because
   an older one was closed and a new one opened in that step. *)
C3_MaxDurationRollover ==
    (result.processed /\ result.has_det /\ result.timestamp = now
        /\ current_event.is_active)
      => now - current_event.start_time.t <= max_event_duration

(* C4. Tracker matching: a detection of the tracked object's class whose box
   is the tracked box moved by less than movement_threshold keeps the tracked identity and
   leaves is_moving false; one whose box moved by more makes is_moving true
   and emits the wake trigger (refine task and scene-analysis candidate)
   exactly when the object was not moving before. *)
C4_TrackerMatching ==
    [][(fret'.seq # fret.seq /\ Len(tracked_objects) = 1
          /\ fret'.det.class = tracked_objects[1].class
          /\ Translated(tracked_objects[1].box, fret'.det.box))
        => LET o == tracked_objects[1]
               d == fret'.det
               wake == fret'.refine /\ fret'.vlm
           IN  /\ DistBelow(d.box, o.box, MovementThreshold)
                    => (fret'.track_id = o.id /\ ~tracked_objects'[1].is_moving)
               /\ DistAbove(d.box, o.box, MovementThreshold)
                    => (tracked_objects'[1].is_moving /\ (wake <=> ~o.is_moving))]_vars

(* C5. The PerceptionResult of a processed frame carries a non-null event_id
   if and only if an event was open when the frame arrived or the frame
   opened one. *)
C5_EventIdIffOpen ==
    result.processed => ((result.event_id # NoId) <=> result.in_event)

(* C6. With a database attached, the identity an active event holds is the
   identity start_event generated for its row. *)
C6_EventIdIsRowId ==
    (db_attached /\ current_event.is_active /\ last_rowid # NoId)
      => current_event.event_id = last_rowid

(* C7. End to end: after ScenarioDetCycles cycles that detect one person and
   loss_tolerance + 1 cycles that detect nothing, the table holds exactly one
   row, closed, whose target_data is the running maximum {person: 1}. *)
C7_EndToEnd ==
    fed = ScenarioDetCycles + loss_tolerance + 1
      => /\ Len(rows) = 1
         /\ rows[1].status = "closed"
         /\ rows[1].target_data = OnePerson

(* C8. Dedup monotonicity: the feature list of the open event holds one
   feature per novel embedding submitted for it, and none for a repeat. *)
C8_DedupMonotone ==
    current_event.is_active => Len(EventFeatures(current_event)) = submitted

(* C9. Batch flush: update_event returns without waiting for its statement,
   and fewer update operations than the batch size are executed as at most
   one batch. *)
C9_BatchFlush ==
    /\ \A c \in DbCallers : dbcall[c].op # "update_event"
    /\ \A batchSize \in 2..MaxBatch : updIssued < batchSize => updBatches <= 1

(* C10. NMS idempotence: running the suppression pass on its own output      *)
(* returns that output unchanged: the same detections in the same order.    *)
C10_NmsIdempotent ==
    nmsPhase = 2 => nmsOut2 = nmsOut

\* both passes ran on an input in which the first pass suppressed a detection
\* and kept two of one class, the input not being sorted by confidence
C10_Witness ==
    /\ nmsPhase = 2
    /\ Len(nmsOut) < Len(nmsIn)
    /\ Len(nmsOut) >= 2
    /\ nmsOut[1].class = nmsOut[2].class
    /\ nmsIn[1].confidence < nmsIn[2].confidence

(* C11. At most three scene analyses (remote model calls) are in flight at   *)
(* any time, whatever the number of concurrent analyze callers and of       *)
(* queued requests.                                                         *)
C11_AnalysisBound ==
    Cardinality(inflight) <= 3

\* four callers are inside analyze: one request is with the model, three wait
\* in the queue
C11_Witness ==
    /\ Cardinality(inflight) = 1
    /\ Len(request_queue) = 3
    /\ \A c \in 1..4 : acall[c].at = "waiting"

(* C12. analyze never blocks its caller longer than the 60 s timeout: it    *)
(* returns the result when the callback fires first, and None at the        *)
(* timeout; the timeout does not cancel the analysis, which leaves the set  *)
(* of running analyses only by completing.                                  *)
C12_AnalyzeTimeout ==
    /\ [](\A c \in Callers :
            /\ acall[c].at = "waiting" => aclock - acall[c].start <= 60
            /\ acall[c].at = "returned" =>
                  \/ /\ acall[c].future = "done"
                     /\ acall[c].analysed
                     /\ acall[c].value # NoValue
                  \/ /\ acall[c].future = "cancelled"
                     /\ acall[c].value = NoneResult
                     /\ aclock - acall[c].start >= 60)
    /\ [][\A c \in Callers :
            (c \in inflight /\ c \notin inflight') => acall'[c].analysed]_vars

\* the first caller got its result; the second timed out, and its analysis
\* is running
C12_Witness ==
    /\ acall[1].at = "returned" /\ acall[1].future = "done"
    /\ acall[2].at = "returned" /\ acall[2].future = "cancelled"
    /\ 2 \in inflight

\* the response is a JSON object that carries the three fields, "is_abnormal"
\* a boolean
HasShape(resp) ==
    /\ resp.form = "object"
    /\ {"description", "is_abnormal", "reason"} \subseteq resp.keys
    /\ resp.abn \in {"true", "false"}

(* C13. A response that is not a JSON object of the shape {description,     *)
(* is_abnormal, reason}, malformed JSON or well-formed JSON of another      *)
(* shape, is treated as a parse failure: the analysis yields a best-effort  *)
(* AnalysisResult with is_abnormal = false and the raw text, truncated, as  *)
(* its description.                                                         *)
C13_ParseFailure ==
    (pout # NoValue /\ presp.form \notin {"null", "empty"} /\ ~HasShape(presp)) =>
        /\ pout # NoneResult
        /\ pout.is_abnormal = FALSE
        /\ pout.description = [src |-> "raw", len |-> Min2(presp.len, 100)]

(* C14. FrameBuffer bound and FIFO eviction: after any sequence of add,     *)
(* get_frames and clear calls the context window holds at most              *)
(* int(fps x duration) frames and the trigger window at most int(fps x 2);  *)
(* a full window evicts its oldest frame on add, so the context window, and *)
(* what get_frames returned, are the most recently added frames in arrival  *)
(* order.                                                                   *)
C14_BufferFifo ==
    /\ Len(context_buffer) <= context_maxlen
    /\ Len(trigger_buffer) <= trigger_maxlen
    /\ context_buffer = Recent(cleared_at, arrived, context_maxlen)
    /\ got.valid => got.frames = Recent(got.cleared_at, got.arrived, context_maxlen)

\* get_frames ran on a full context window that had evicted a frame, and the
\* trigger window is full too
C14_Witness ==
    /\ got.valid
    /\ context_maxlen >= 2
    /\ Len(got.frames) = context_maxlen
    /\ got.frames[1] > got.cleared_at + 1
    /\ Len(trigger_buffer) = trigger_maxlen

(* C15. FrameBuffer signalling: wait_for_new_data returns true only when an *)
(* add has happened since the signal was last cleared and false only when   *)
(* none has; an add that completes after the snapshot of a                  *)
(* get_frames(clear_trigger=True) leaves the signal set, so no added frame  *)
(* goes unsignalled.                                                        *)
C15_BufferSignal ==
    /\ [](added_since_clear => new_data_event)
    /\ [][/\ (bwait = "waiting" /\ bwait' = "true") => added_since_clear
          /\ (bwait = "waiting" /\ bwait' = "false") => ~added_since_clear]_vars

\* the consumer took a snapshot that cleared the signal, a frame was added
\* after it, and the consumer's next wait returned true
C15_Witness ==
    /\ got.valid
    /\ got.arrived >= 1
    /\ arrived > got.arrived
    /\ added_since_clear
    /\ bwait = "true"

C17_CaptureFeeds ==
    (eye_running /\ latest_no > 0) ~>
        ((added_no > 0 /\ new_data_event) \/ ~eye_running)

(* C18. After update_policy(risk_level, dynamic_targets) the high-priority  *)
(* class set is the base alert set plus dynamic_targets when risk_level is  *)
(* "high" and exactly the base alert set otherwise, whatever an earlier     *)
(* call added; the recheck interval is the short one for "high", the long   *)
(* one for "low" and the default otherwise. The state after a call depends  *)
(* on the arguments of that call only, so a repeated call changes nothing.  *)
C18_UpdatePolicy ==
    policy.called =>
        /\ high_priority_classes =
              IF current_risk_level = "high" THEN BaseAlertClasses \cup policy.targets
              ELSE BaseAlertClasses
        /\ recheck_interval =
              IF current_risk_level = "high" THEN 5
              ELSE IF current_risk_level = "low" THEN 60
              ELSE 15

\* a call with a level other than "high" that names a dynamic target: the
\* target is not in the set
C18_Witness ==
    /\ policy.called
    /\ current_risk_level = "low"
    /\ policy.targets = {"person"}
    /\ high_priority_classes = BaseAlertClasses
    /\ tracked_objects # <<>>

(* C19. Every detection that matches no tracked object of its class gets a  *)
(* newly allocated identity, is added to the tracked set as stationary, and *)
(* produces both one refine task carrying that identity and one             *)
(* scene-analysis candidate, whatever the risk policy.                      *)
C19_NewTarget ==
    [][(fret'.seq # fret.seq /\ fret'.det # NoDet
          /\ Matches(tracked_objects, fret'.det) = {}) =>
            /\ next_id' = next_id + 1
            /\ \A i \in 1..Len(tracked_objects) : tracked_objects[i].id < next_id'
            /\ fret'.track_id = next_id'
            /\ \E i \in 1..Len(tracked_objects') :
                  /\ tracked_objects'[i].id = next_id'
                  /\ tracked_objects'[i].class = fret'.det.class
                  /\ tracked_objects'[i].box = fret'.det.box
                  /\ ~tracked_objects'[i].is_moving
            /\ fret'.refine
            /\ fret'.vlm]_vars

\* a person, no high-priority class under the policy in force, was detected
\* where the tracked person was not, and got the second identity
C19_Witness ==
    /\ current_risk_level = "low"
    /\ fret.det.class = "person"
    /\ fret.track_id = 2
    /\ next_id = 2
    /\ fret.refine
    /\ fret.vlm
    /\ Len(tracked_objects) = 1
    /\ tracked_objects[1].id = 2
    /\ ~tracked_objects[1].is_moving

(* C20. While an event is open, each per-class entry of max_counts never    *)
(* decreases, and after every frame it equals the maximum count of that     *)
(* class over all frames seen since the event was opened.                   *)
C20_MaxCounts ==
    /\ [](current_event.is_active => current_event.max_counts = seen_max)
    /\ [][(current_event.is_active /\ current_event'.is_active /\ opened' = opened) =>
             \A c \in Classes :
                 current_event'.max_counts[c] >= current_event.max_counts[c]]_vars

\* the second event of the run is open and has seen two persons and a knife,
\* after the first had seen some
C20_Witness ==
    /\ current_event.is_active
    /\ opened = 2
    /\ current_event.max_counts["person"] = 2
    /\ current_event.max_counts["knife"] = 1
    /\ seen_max = current_event.max_counts
    /\ now > 0

(* C21. While an event is open, its alert_tags equal the union of the alert *)
(* tags of every frame processed since the event was opened. A frame that   *)
(* shows a base alert class carries the tag "visual", and max_counts records *)
(* that such a frame was processed, so an open event that has counted a     *)
(* base alert class holds the tag "visual".                                  *)
C21_TagsUnion ==
    (current_event.is_active /\ \E c \in BaseAlertClasses : current_event.max_counts[c] > 0)
        => "visual" \in current_event.alert_tags

\* one coroutine only assigns the fields of EventState
SingleWriter == Cardinality(writers) <= 1

(* C22. Event-state transitions are totally ordered: for every opened event *)
(* the persistence close_event is issued at most once, also when a dismiss  *)
(* command arrives while the analysis lane awaits the database inside a     *)
(* transition.                                                               *)
C22_CloseOnce == \A k \in 1..MaxEvents : close_calls[k] <= 1

\* the posts of the call that failed in a way _send_request retries
Retriable(o) ==
    ~(o.kind = "response" /\ o.code = 200 /\ o.body_ok)
        /\ ~(o.kind = "response" /\ 400 <= o.code /\ o.code < 500)

(* C23. _send_request posts at most 3 times; every post but the last failed *)
(* with a network error or a server error and was followed by a sleep of    *)
(* base_delay * 2^attempt seconds; a 4xx response ends the call at once     *)
(* with an error payload; after the third failed post the call returns the  *)
(* error payload "Request timed out"; and it gives up no earlier.           *)
C23_RetryBackoff ==
    /\ Len(soutcomes) <= max_retries
    /\ \A i \in 1..Len(soutcomes) : i < Len(soutcomes) => Retriable(soutcomes[i])
    /\ \A i \in 1..Len(sdelays) : sdelays[i] = base_delay * (2 ^ (i - 1))
    /\ spc = "post" => Len(sdelays) = Len(soutcomes)
    /\ spc = "sleep" => Len(sdelays) = Len(soutcomes) - 1 /\ Retriable(soutcomes[Len(soutcomes)])
    /\ spc = "done" /\ soutcomes # <<>> =>
          LET last == soutcomes[Len(soutcomes)] IN
          /\ Len(sdelays) = Len(soutcomes) - 1
          /\ sret.kind \in {"content", "error"}
          /\ sret = Content <=> ~Retriable(last) /\ last.code = 200
          /\ (last.kind = "response" /\ 400 <= last.code /\ last.code < 500)
                => sret = ApiError(last.code)
          /\ Retriable(last) => sret = RequestTimedOut /\ Len(soutcomes) = max_retries

\* three posts failed, one on the network and two on the server, with sleeps
\* of 2 and 4 seconds in between, and the call returned the error payload
C23_Witness ==
    /\ spc = "done"
    /\ Len(soutcomes) = max_retries
    /\ soutcomes[1].kind = "exception"
    /\ soutcomes[2].code = 500
    /\ soutcomes[3].code = 503
    /\ sdelays = <<2, 4>>
    /\ sret = RequestTimedOut

(* C24. Cooperative stop: once EyeCore.stop() has run after EyeCore.start(), *)
(* the capture lane, the analysis lane and the recording loop each see the  *)
(* cleared flag and end, so that EyeCore.start returns, with no task        *)
(* cancelled and also when a scene analysis is in flight.                   *)
C24_CooperativeStop == EyeStopped ~> StartReturned

(* C25. The empty-frame counter of an active event counts consecutive empty *)
(* frames only: it never exceeds the number of empty frames fed since the   *)
(* last frame with detections, whichever entry point each frame came        *)
(* through (store, or update_event / try_close_event).                      *)
C25_ConsecutiveEmpties ==
    current_event.is_active => current_event.empty_frame_counter <= empties

(* C26. Every inference runs under the vocabulary of its stage: the         *)
(* inference started last, by detect_stage1 or for a crop of detect_stage2, *)
(* started with the client's vocabulary equal to the target list of its     *)
(* stage, under any interleaving of detect_stage1, detect_stage2 and        *)
(* update_stage1_targets.                                                    *)
C26_StageVocabulary ==
    last_infer.stage # 0 => last_infer.vocab = last_infer.targets

(* C27. Restore on all paths: whenever the client exists and no             *)
(* detect_stage2 call is in progress, the vocabulary is _stage1_targets,    *)
(* also after the task awaiting detect_stage2 was cancelled during a crop   *)
(* inference.                                                                *)
C27_RestoreOnAllPaths ==
    (initialized /\ s2call.at = "idle") => current_targets = stage1_targets

(* C28. Stage 2 infers every crop: a detect_stage2 call that returns its    *)
(* features has run an inference on the crop of every task whose clamped    *)
(* box has positive area, and every feature is tagged with the track        *)
(* identity of such a task.                                                  *)
C28_EveryCropInferred ==
    s2ret.kind = "features" =>
        /\ s2ret.ran = s2ret.valid
        /\ \A j \in 1..Len(s2ret.features) : s2ret.features[j] \in s2ret.valid

(* C29. The dispatcher offers three concurrent analysis slots: when a       *)
(* request waits in the queue and fewer than three analyses are in flight,  *)
(* the dispatcher is at request_queue.get, ready to start the waiting       *)
(* request, and not held up by an analysis in flight.                       *)
C29_ThreeSlots ==
    (request_queue # <<>> /\ Cardinality(inflight) < SemaphoreLimit) => worker.at = "get"

\* trigger B applies to det: it matches a tracked object that was moving
\* already, still moves, and is of a high-priority class
RuleB(tracked, det) ==
    /\ Matches(tracked, det) # {}
    /\ tracked[FirstMatch(tracked, det)].is_moving
    /\ DistAbove(det.box, tracked[FirstMatch(tracked, det)].box, MovementThreshold)
    /\ det.class \in high_priority_classes

(* C30. Cooldown of trigger B: a call of check_refinement_needs that finds  *)
(* a matched object that is not waking, of a high-priority class and        *)
(* moving, emits a refine task only if more than 2 s have passed since the  *)
(* object's last check, sets the last-check time when it emits and leaves   *)
(* it alone otherwise, and emits no scene-analysis candidate. The           *)
(* last-check time of an identity never decreases and is never in the       *)
(* future, so two successive refine tasks of trigger B for one identity are *)
(* more than 2 s apart.                                                      *)
C30_Cooldown ==
    /\ [][(fret'.seq # fret.seq /\ fret'.det # NoDet /\ RuleB(tracked_objects, fret'.det)) =>
            LET prev_obj == tracked_objects[FirstMatch(tracked_objects, fret'.det)]
                obj == tracked_objects'[1]
            IN  /\ ~fret'.vlm
                /\ fret'.track_id = prev_obj.id
                /\ obj.id = prev_obj.id
                /\ fret'.refine => /\ fclock - prev_obj.last_check_time > 2
                                   /\ obj.last_check_time = fclock
                /\ ~fret'.refine => obj.last_check_time = prev_obj.last_check_time]_vars
    /\ [][\A i \in 1..Len(tracked_objects), j \in 1..Len(tracked_objects') :
            tracked_objects[i].id = tracked_objects'[j].id =>
                /\ tracked_objects'[j].last_check_time >= tracked_objects[i].last_check_time
                /\ tracked_objects'[j].last_check_time <= fclock']_vars

\* trigger B has just emitted a refine task, and no scene-analysis candidate,
\* for a moving knife first seen at least 3 s earlier
C30_Witness ==
    /\ fret.refine
    /\ ~fret.vlm
    /\ fret.det.class = "knife"
    /\ tracked_objects # <<>>
    /\ tracked_objects[1].is_moving
    /\ tracked_objects[1].id = fret.track_id
    /\ tracked_objects[1].last_check_time = fclock
    /\ fclock >= 3

\* trigger C applies to det: it matches a tracked object, the object is not
\* waking, and it is not both of a high-priority class and moving
RuleC(tracked, det) ==
    /\ Matches(tracked, det) # {}
    /\ LET prev_obj == tracked[FirstMatch(tracked, det)]
           is_moving == DistAbove(det.box, prev_obj.box, MovementThreshold)
       IN  /\ ~(~prev_obj.is_moving /\ is_moving)
           /\ ~(det.class \in high_priority_classes /\ is_moving)

C31_WitnessHighPriority ==
    /\ fret.vlm
    /\ fret.refine
    /\ fret.det.class = "knife"
    /\ tracked_objects # <<>>
    /\ tracked_objects[1].id = fret.track_id
    /\ ~tracked_objects[1].is_moving
    /\ next_id = 1
    /\ fclock > recheck_interval

\* identities of the objects of a tracked list
TrackedIds(tracked) == {tracked[k].id : k \in 1..Len(tracked)}

(* C32. Tracker carry-forward: a check_refinement_needs call on a frame with *)
(* no detections empties the tracked list and returns nothing; a call on a  *)
(* frame with detections leaves one tracked entry per detection, each being *)
(* the object that detection matched or the object created for it, so an    *)
(* object no detection matched is no longer tracked, and a detection that   *)
(* matches nothing tracked gets a newly created identity.                   *)
C32_CarryForward ==
    [][tret'.seq # tret.seq =>
         IF tret'.frame = <<>>
         THEN /\ tracked_objects' = <<>>
              /\ tret'.refine_tasks = <<>>
              /\ tret'.vlm_candidates = <<>>
         ELSE /\ Len(tracked_objects') = Len(tret'.frame)
              /\ \A k \in 1..Len(tret'.frame) :
                    /\ tracked_objects'[k].id = tret'.track_ids[k]
                    /\ tracked_objects'[k].class = tret'.frame[k].class
                    /\ \/ tret'.track_ids[k] \in tret'.created
                       \/ \E i \in 1..Len(tracked_objects) :
                             /\ tracked_objects[i].id = tret'.track_ids[k]
                             /\ tracked_objects[i].class = tret'.frame[k].class
              /\ \A i \in 1..Len(tracked_objects) :
                    (\A k \in 1..Len(tret'.frame) :
                        tret'.track_ids[k] # tracked_objects[i].id)
                      => tracked_objects[i].id \notin TrackedIds(tracked_objects')
              /\ Matches(tracked_objects, tret'.frame[1]) = {}
                    => /\ tret'.track_ids[1] = next_id + 1
                       /\ tret'.track_ids[1] \in tret'.created
                       /\ tret'.track_ids[1] \notin TrackedIds(tracked_objects)
      ]_vars

\* object 1 was tracked and then not matched; the one detection of the last
\* frame has been given identity 2 and is the only object tracked
C32_Witness ==
    /\ Len(tret.frame) = 1
    /\ tret.created = {2}
    /\ issued = {1, 2}
    /\ Len(tracked_objects) = 1
    /\ tracked_objects[1].id = 2
    /\ tracked_objects[1].box = tret.frame[1].box

(* C33. Identities are handed out monotonically over any sequence of        *)
(* check_refinement_needs, update_policy and reset calls: the counter never *)
(* goes down, and an identity created by a call was never handed out        *)
(* before.                                                                  *)
C33_IdentitiesNeverReused ==
    [][/\ next_id' >= next_id
       /\ tret'.seq # tret.seq => tret'.created \cap issued = {}]_vars

(* C36. After every check_refinement_needs call the identities in the       *)
(* tracked list are pairwise distinct: no tracked object is carried forward *)
(* for two detections of the same frame.                                    *)
C36_DistinctIdentities ==
    \A i, j \in 1..Len(tracked_objects) :
        i # j => tracked_objects[i].id # tracked_objects[j].id

(* C35. A failed start is not held as an event: once db_manager.start_event *)
(* has returned to PerceptionMemory, an active event is one for which the   *)
(* persistence engine created a row (the call returned an identity, not     *)
(* None after its retries were used up).                                    *)
C35_ActiveEventHasRow ==
    (current_event.is_active /\ alane.at \notin {"perceive_start", "store_start"})
        => last_rowid # NoId

(* C38. Connection-pool conservation: once initialize() has filled the pool *)
(* and no operation is in flight, the pool holds every connection that      *)
(* initialize() created, and it never holds more than _max_connections.     *)
C38_PoolConserved ==
    /\ Len(connection_pool) <= max_connections
    /\ (\A o \in PoolOps : holding[o] = NoConn) => init_conns \subseteq Pooled

\* _calculate_iou(boxA, boxB) > nms_threshold
IouAboveNms(boxA, boxB) ==
    LET inter == InterArea(boxA, boxB) IN
    inter # 0 /\ inter * 100 > NmsThresholdPct * (BoxArea(boxA) + BoxArea(boxB) - inter)

\* how often d occurs in a list
Occurrences(dets, d) == Cardinality({k \in 1..Len(dets) : dets[k] = d})

(* C34. Per-class suppression result: every detection of the output of      *)
(* _apply_nms comes from the input (no more often than it occurs there);    *)
(* within each class the first detection of the highest confidence is kept; *)
(* and a detection is dropped only for an IOU above the threshold with a    *)
(* detection of its own class, so one that has no such IOU with any other   *)
(* same-class detection of the input is in the output.                      *)
C34_NmsResult ==
    nmsPhase >= 1 =>
        /\ \A k \in 1..Len(nmsOut) :
              Occurrences(nmsOut, nmsOut[k]) <= Occurrences(nmsIn, nmsOut[k])
        /\ \A i \in 1..Len(nmsIn) :
              (\A j \in 1..Len(nmsIn) :
                  nmsIn[j].class = nmsIn[i].class =>
                      /\ nmsIn[j].confidence <= nmsIn[i].confidence
                      /\ j < i => nmsIn[j].confidence < nmsIn[i].confidence)
                => \E k \in 1..Len(nmsOut) : nmsOut[k] = nmsIn[i]
        /\ \A i \in 1..Len(nmsIn) :
              (\A j \in 1..Len(nmsIn) :
                  (j # i /\ nmsIn[j].class = nmsIn[i].class)
                      => ~IouAboveNms(nmsIn[i].box, nmsIn[j].box))
                => \E k \in 1..Len(nmsOut) : nmsOut[k] = nmsIn[i]

(* C39. A read of the context frames through get_context_frames() leaves    *)
(* the FrameBuffer's new-data signal and its trigger window as they were,   *)
(* so a frame added before the read is still signalled to the next          *)
(* wait_for_new_data.                                                       *)
C39_ContextReadKeepsSignal ==
    [][got' # got => /\ new_data_event' = new_data_event
                     /\ trigger_buffer' = trigger_buffer]_vars

(* C37. The scene-analysis worker survives timed-out requests: whatever     *)
(* calls have returned on timeout and whenever their analyses complete, the *)
(* worker task is still running its loop, so a request waiting in the queue *)
(* has a worker that will take it.                                          *)
C37_WorkerSurvives ==
    worker.at # "dead"

(* C40. In the analysis lane (perceive, then store) each empty frame        *)
(* advances the active event's empty-frame counter by exactly one, so the   *)
(* counter of an active event is the number of empty passes since the last  *)
(* pass with detections and the event is not closed before the              *)
(* loss_tolerance-th consecutive empty pass.                                *)
C40_OneStepPerEmptyCycle ==
    /\ current_event.is_active => current_event.empty_frame_counter = empties
    /\ (opened > 0 /\ empties < loss_tolerance) => current_event.is_active

====
